---- MODULE Spec2Model ----
(***************************************************************************)
(* KinoWeek: a model of the weekly event digest.                           *)
(*                                                                         *)
(*  - the aggregator  (kinoweek/aggregator.py, kinoweek/models.py): Spec   *)
(*  - one source's fetch() (sources/cinema/astor.py,                       *)
(*    sources/concerts/capitol.py, sources/base.py): SpecSource            *)
(*  - the workflow run() (main.py, scrapers.py, notifier.py): SpecRun      *)
(*  - the Event constructor (models.py): SpecEvent                         *)
(*                                                                         *)
(* Time is a line of integer instants.  A datetime is a record             *)
(* [at, tz]: `at' is the instant, `tz' tells whether the value carries a   *)
(* UTC offset (an "aware" datetime).  Python refuses to order a naive      *)
(* datetime against an aware one (TypeError).                              *)
(***************************************************************************)
EXTENDS Integers, Sequences, FiniteSets, TLC

\* ------------------------------------------------------------------ bounds
NumSources == 2         \* entries of the source registry
MaxFetch == 2           \* events one fetch() returns at most
MaxCollected == 2       \* events one fetch_all_events call collects at most
MaxElapsed == 1         \* instants the clock advances during one call
MaxRecords == 2         \* records on the page one source downloads
MaxOver == 2            \* records a long page has beyond the source's cap
MaxLate == 1            \* sources registered while a call is in its loop
MaxMade == 2            \* Event objects constructed
MaxRuns == 3            \* discover_sources calls followed
MaxCalls == 3           \* other calls of the registry's interface followed
MaxMovies == 3          \* movie events handed to group_movies_by_film
MaxListed == 2          \* events in one list handed to format_message

\* ------------------------------------------------------- program constants
WeekDays == 7           \* timedelta(days=7)
CapitolMaxEvents == 15  \* CapitolSource.max_events
PavillonMaxEvents == 20 \* PavillonSource.max_events
TELEGRAM_MESSAGE_MAX_LENGTH == 4096
TruncationReserve == 20 \* message[: TELEGRAM_MESSAGE_MAX_LENGTH - 20]

VARIABLES
    registry,       \* _REGISTRY: insertion-ordered, <<[name, cls], ...>>
    clock,          \* what datetime.now() reads
    pc,             \* position of the fetch_all_events call
    today,          \* fetch_all_events: today
    next_week,      \* fetch_all_events: next_week
    sources,        \* fetch_all_events: sources (the snapshot iterated)
    idx,            \* position of the for loop in sources
    all_movies,     \* fetch_all_events: all_movies
    radar_events,   \* fetch_all_events: radar_events
    result,         \* the returned dictionary, NoResult before the return
    calls,          \* history: name -> number of fetch() invocations
    failed,         \* history: names logged by "Source %s failed"
    returned,       \* history: name -> the list its fetch() returned
    \* one source's fetch()
    src_cls,        \* the class of the source: "AstorSource", "CapitolSource",
                    \* "PavillonSource"
    src_page,       \* the records of the downloaded page
    src_pos,        \* position of the parse loop in src_page
    src_events,     \* the events list built so far
    src_pc,         \* position of the fetch() call
    \* run()
    local_only,     \* the local_only argument
    environ,        \* names of the environment variables that are set
    run_pc,         \* position of the run() call
    run_result,     \* what run() gave: "none", "True", "False", "SystemExit"
    l_today,        \* scrapers.fetch_all_events: today
    l_next_week,    \* scrapers.fetch_all_events: next_week
    l_movies,       \* scrapers.fetch_all_events: all_movies
    l_culture,      \* scrapers.fetch_all_events: culture_events
    l_radar,        \* ConcertVenueScraper.fetch: events
    venue_idx,      \* position of the loop over enabled_venues
    events_data,    \* run: events_data, NoResult before the assignment
    notified,       \* history: the argument notify() was called with
    invoked,        \* history: operations run() set off
    transport_failed,   \* history: sources whose HTTP request failed
    \* Event construction
    made,           \* the Event objects constructed so far
    meta_ref,       \* per Event of made: the dict default_factory built for
                    \* it, 0 when the caller passed metadata
    dicts,          \* the dicts default_factory built: id -> keys set in it
    \* a call of one of the pure helpers
    called,         \* the function called last, "none" before any call
    arg,            \* its argument
    out,            \* what the call came back with
    \* the registry's interface
    mapping,        \* the mapping a get_all_sources / get_sources_by_type
                    \* call handed to its caller, as the caller has it now
    last_call,      \* the last call of the interface and what it came back with
    sys_modules,    \* per source module, the execution that made the module
                    \* object held in sys.modules; 0 when it holds none
    unimportable,   \* source modules whose import raises ImportError
    runs,           \* discover_sources calls completed
    reg_calls,      \* other calls of the interface completed
    after_first     \* history: the registry when the first run returned

aggVars == <<registry, clock, pc, today, next_week, sources, idx,
             all_movies, radar_events, result, calls, failed, returned>>

\* aggVars without the clock
callVars == <<registry, pc, today, next_week, sources, idx,
              all_movies, radar_events, result, calls, failed, returned>>

srcVars == <<src_cls, src_page, src_pos, src_events, src_pc>>

runVars == <<local_only, environ, run_pc, run_result, l_today, l_next_week,
             l_movies, l_culture, l_radar, venue_idx, events_data, notified,
             invoked, transport_failed>>

evVars == <<made, meta_ref, dicts>>

fnVars == <<called, arg, out>>

regVars == <<mapping, last_call, sys_modules, unimportable, runs, reg_calls,
             after_first>>

\* aggVars without the registry
aggNoRegistry == <<clock, pc, today, next_week, sources, idx,
                   all_movies, radar_events, result, calls, failed, returned>>

vars == <<aggVars, srcVars, runVars, evVars, fnVars, regVars>>

\* ---------------------------------------------------------------- datetime
DateTime(at, tz) == [at |-> at, tz |-> tz]

\* datetime.now(): naive local time
Now == DateTime(clock, FALSE)

\* d + timedelta(days=n)
PlusDays(d, n) == DateTime(d.at + n, d.tz)

\* ordering two datetimes raises TypeError unless both are naive or both aware
Comparable(a, b) == a.tz = b.tz

\* ------------------------------------------------------------------- Event
EventCategory == {"movie", "culture", "radar"}

NoMetadata == <<>>

\* the dataclass-generated constructor: it stores its arguments
Event(title, date, venue, url, category, metadata) ==
    [title |-> title, date |-> date, venue |-> venue, url |-> url,
     category |-> category, metadata |-> metadata]

\* Event.is_this_week raises when self.date is aware
is_this_week_raises(self, now) == ~Comparable(now, self.date)

\* Event.is_this_week, `now' being the clock it reads when called
is_this_week(self, now) ==
    LET today_ == now
        next_week_ == PlusDays(today_, WeekDays)
    IN  today_.at <= self.date.at /\ self.date.at <= next_week_.at

\* ---------------------------------------------------------------- registry
\* What a registered class does when the aggregator uses it:
\*   ctor    -- "ok" or "raises": source_cls()
\*   enabled -- the enabled class attribute
\*   named   -- whether source_name is defined (BaseSource only declares it)
SourceClass(ctor, enabled, named) ==
    [ctor |-> ctor, enabled |-> enabled, named |-> named]

Names == 1..NumSources

Registries ==
    LET SourceClasses ==
            { SourceClass("ok", TRUE, TRUE),        \* a working source
              SourceClass("ok", FALSE, TRUE),       \* enabled = False
              SourceClass("raises", TRUE, TRUE),    \* __init__ raises
              SourceClass("ok", TRUE, FALSE) }      \* no source_name
    IN  { [i \in Names |-> [name |-> i, cls |-> f[i]]] :
            f \in [Names -> SourceClasses] }

\* get_all_sources(): _REGISTRY.copy()
get_all_sources == registry

\* no mapping handed out yet
NoMapping == [alias |-> FALSE, items |-> <<>>]

\* ------------------------------------------------- what a fetch can return
Listing(title, at, tz, category) ==
    [title |-> title, date |-> DateTime(at, tz), category |-> category]

\* Listings a page can carry, dated relative to the start of the call (0):
\* past, now, the last instant of the week, the first instant after it.
Pool ==
    { Listing("A", -1, FALSE, "movie"),
      Listing("A", 0, FALSE, "movie"),
      Listing("B", WeekDays, FALSE, "movie"),
      Listing("B", WeekDays + 1, FALSE, "movie"),
      Listing("A", 1, TRUE, "movie"),
      Listing("A", WeekDays, FALSE, "radar"),
      Listing("A", WeekDays + 1, FALSE, "radar"),
      Listing("B", WeekDays + 2, FALSE, "culture") }

Pages == UNION { [1..n -> Pool] : n \in 0..MaxFetch }

\* the events a source called `name' builds from a page
EventsOf(name, page) ==
    [i \in 1..Len(page) |->
        Event(page[i].title, page[i].date, name, "", page[i].category, NoMetadata)]

\* ------------------------------------------------------------- aggregator
NoResult == [status |-> "none"]

\* sorted(..., key=lambda e: e.date): stable, ascending
RECURSIVE InsertByDate(_, _)
InsertByDate(e, s) ==
    IF s = <<>> THEN <<e>>
    ELSE IF s[Len(s)].date.at <= e.date.at THEN Append(s, e)
    ELSE Append(InsertByDate(e, SubSeq(s, 1, Len(s) - 1)), s[Len(s)])

\* mutant: the list is handed on in arrival order
sorted_unsorted(s) == s

RECURSIVE sorted(_)
sorted(s) ==
    IF s = <<>> THEN <<>>
    ELSE InsertByDate(s[Len(s)], sorted(SubSeq(s, 1, Len(s) - 1)))

\* mutant: the cutoff instant itself counts as beyond the week
BeyondWeek_inclusive(r, cutoff) == r.date.at >= cutoff.at

\* the radar filter: r.date > next_week
BeyondWeek(r, cutoff) == r.date.at > cutoff.at

\* lines 91-94: sorted(m for m in all_movies if m.is_this_week())
MoviesThisWeek(movies, now) ==
    sorted(SelectSeq(movies, LAMBDA m : is_this_week(m, now)))

\* lines 97-100: sorted(r for r in radar_events if r.date > next_week)
BigEventsRadar(radar, cutoff) ==
    sorted(SelectSeq(radar, LAMBDA r : BeyondWeek(r, cutoff)))

\* for event in events: movie -> all_movies, anything else -> radar_events
MoviesOf(events) == SelectSeq(events, LAMBDA e : e.category = "movie")
OthersOf(events) == SelectSeq(events, LAMBDA e : e.category # "movie")

\* aggregator.py 48-57: the clock is read once, the registry is copied
Start ==
    /\ pc = "idle"
    /\ today' = Now
    /\ next_week' = PlusDays(Now, WeekDays)
    /\ all_movies' = <<>>
    /\ radar_events' = <<>>
    /\ sources' = get_all_sources
    /\ idx' = 1
    /\ pc' = "loop"
    /\ UNCHANGED <<registry, clock, result, calls, failed, returned>>
    /\ UNCHANGED <<srcVars, runVars, evVars, fnVars, regVars>>

\* mutant: the loop walks the registry itself
Iterated_live == registry

\* line 60: the dict the for loop walks is the copy line 57 took
Iterated == sources

InLoop == pc = "loop" /\ idx <= Len(Iterated)

Cur == Iterated[idx]

\* mutant: the first failure ends the loop
Caught_aborts(name) ==
    /\ failed' = failed \cup {name}
    /\ idx' = Len(sources) + 1

\* the except branch: log a warning, go on with the next source
Caught(name) ==
    /\ failed' = failed \cup {name}
    /\ idx' = idx + 1

\* line 63 raises
InstantiationFails ==
    /\ InLoop
    /\ Cur.cls.ctor = "raises"
    /\ Caught(Cur.name)
    /\ UNCHANGED <<registry, clock, pc, today, next_week, sources, all_movies,
                   radar_events, result, calls, returned>>
    /\ UNCHANGED <<srcVars, runVars, evVars, fnVars, regVars>>

\* lines 66-68
SkipDisabled ==
    /\ InLoop
    /\ Cur.cls.ctor = "ok"
    /\ ~Cur.cls.enabled
    /\ idx' = idx + 1
    /\ UNCHANGED <<registry, clock, pc, today, next_week, sources, all_movies,
                   radar_events, result, calls, failed, returned>>
    /\ UNCHANGED <<srcVars, runVars, evVars, fnVars, regVars>>

\* line 70 reads source.source_name before the fetch
NameUnreadable ==
    /\ InLoop
    /\ Cur.cls.ctor = "ok"
    /\ Cur.cls.enabled
    /\ ~Cur.cls.named
    /\ Caught(Cur.name)
    /\ UNCHANGED <<registry, clock, pc, today, next_week, sources, all_movies,
                   radar_events, result, calls, returned>>
    /\ UNCHANGED <<srcVars, runVars, evVars, fnVars, regVars>>

Fetchable ==
    /\ InLoop
    /\ Cur.cls.ctor = "ok"
    /\ Cur.cls.enabled
    /\ Cur.cls.named

\* line 71 raises (transport failure, or anything else fetch() lets escape)
FetchRaises ==
    /\ Fetchable
    /\ calls' = [calls EXCEPT ![Cur.name] = @ + 1]
    /\ Caught(Cur.name)
    /\ UNCHANGED <<registry, clock, pc, today, next_week, sources, all_movies,
                   radar_events, result, returned>>
    /\ UNCHANGED <<srcVars, runVars, evVars, fnVars, regVars>>

\* lines 71-84: fetch() returns a list and the loop files its events
FetchReturns ==
    /\ Fetchable
    /\ \E page \in Pages :
         LET events == EventsOf(Cur.name, page) IN
         /\ Len(all_movies) + Len(radar_events) + Len(events) <= MaxCollected
         /\ calls' = [calls EXCEPT ![Cur.name] = @ + 1]
         /\ returned' = [returned EXCEPT ![Cur.name] = events]
         /\ all_movies' = all_movies \o MoviesOf(events)
         /\ radar_events' = radar_events \o OthersOf(events)
    /\ idx' = idx + 1
    /\ UNCHANGED <<registry, clock, pc, today, next_week, sources, result, failed>>
    /\ UNCHANGED <<srcVars, runVars, evVars, fnVars, regVars>>

\* lines 71-87: the returned list holds, after some events, an element that
\* is no Event (None): the loop files the events before it, then
\* event.category raises inside the try block
FetchReturnsMalformed ==
    /\ Fetchable
    /\ \E page \in Pages :
         LET events == EventsOf(Cur.name, page) IN
         /\ Len(all_movies) + Len(radar_events) + Len(events) <= MaxCollected
         /\ calls' = [calls EXCEPT ![Cur.name] = @ + 1]
         /\ returned' = [returned EXCEPT ![Cur.name] = events]
         /\ all_movies' = all_movies \o MoviesOf(events)
         /\ radar_events' = radar_events \o OthersOf(events)
    /\ Caught(Cur.name)
    /\ UNCHANGED <<registry, clock, pc, today, next_week, sources, result>>
    /\ UNCHANGED <<srcVars, runVars, evVars, fnVars, regVars>>

\* base.py 75-84: while the call is in its loop, the code of a source being
\* instantiated or fetched (a module it imports) registers a class under a
\* new name: _REGISTRY[name] = cls
RegisterDuringLoop ==
    /\ pc = "loop"
    /\ Len(registry) < NumSources + MaxLate
    /\ registry' = Append(registry, [name |-> Len(registry) + 1,
                                     cls |-> SourceClass("ok", TRUE, TRUE)])
    /\ UNCHANGED aggNoRegistry
    /\ UNCHANGED <<srcVars, runVars, evVars, fnVars, regVars>>

\* lines 90-111, outside the try block.  `elapsed' is the time the clock has
\* advanced since line 48 when is_this_week reads it.
FilterAndSort ==
    /\ pc = "loop"
    /\ idx > Len(Iterated)
    /\ \E elapsed \in 0..MaxElapsed :
         /\ clock' = clock + elapsed
         /\ LET now == DateTime(clock + elapsed, FALSE)
                raises ==
                    \/ \E i \in 1..Len(all_movies) :
                           is_this_week_raises(all_movies[i], now)
                    \/ \E i \in 1..Len(radar_events) :
                           ~Comparable(radar_events[i].date, next_week)
            IN  IF raises
                THEN /\ pc' = "raised"
                     /\ result' = NoResult
                ELSE /\ pc' = "done"
                     /\ result' =
                          [movies_this_week |-> MoviesThisWeek(all_movies, now),
                           big_events_radar |->
                               BigEventsRadar(radar_events, next_week)]
    /\ UNCHANGED <<registry, today, next_week, sources, idx, all_movies,
                   radar_events, calls, failed, returned>>
    /\ UNCHANGED <<srcVars, runVars, evVars, fnVars, regVars>>

\* ==================================================== one source's fetch()
\* --------------------------------------------------------------------- text
\* A text is a sequence of characters.  A character is a one-letter string;
\* "A-uml", "a-uml", ... stand for the umlauts and "U+CC44" for the code
\* point that config.py carries in its keys at lines 147-148.
Digits == <<"0", "1", "2", "3", "4", "5", "6", "7", "8", "9">>

UpperCase ==
    <<"A", "B", "C", "D", "E", "F", "G", "H", "I", "J", "K", "L", "M",
      "N", "O", "P", "Q", "R", "S", "T", "U", "V", "W", "X", "Y", "Z",
      "A-uml", "O-uml", "U-uml">>

LowerCase ==
    <<"a", "b", "c", "d", "e", "f", "g", "h", "i", "j", "k", "l", "m",
      "n", "o", "p", "q", "r", "s", "t", "u", "v", "w", "x", "y", "z",
      "a-uml", "o-uml", "u-uml">>

\* \d
IsDigit(c) == \E i \in 1..Len(Digits) : Digits[i] = c

\* the letter class of the venue date pattern: A-Z, a-z and the umlauts
\* int(s) of a text of digits
RECURSIVE int(_)
int(s) ==
    LET DigitValue(c) == (CHOOSE i \in 1..Len(Digits) : Digits[i] = c) - 1
    IN  IF s = <<>> THEN 0
        ELSE 10 * int(SubSeq(s, 1, Len(s) - 1)) + DigitValue(s[Len(s)])

\* str.lower()
lower(s) ==
    [k \in 1..Len(s) |->
        IF \E i \in 1..Len(UpperCase) : UpperCase[i] = s[k]
        THEN LowerCase[CHOOSE i \in 1..Len(UpperCase) : UpperCase[i] = s[k]]
        ELSE s[k]]

\* sub in s
Contains(s, sub) ==
    \E i \in 0..(Len(s) - Len(sub)) : SubSeq(s, i + 1, i + Len(sub)) = sub

AllDigits(s, i, j) == j <= Len(s) /\ \A k \in i..j : IsDigit(s[k])

\* ------------------------------------------------ what a call comes back with
None == [outcome |-> "None"]
Raised == [outcome |-> "raised"]
Value(v) == [outcome |-> "value", value |-> v]

\* ------------------------------------------------------- calendar datetimes
\* datetime(year, month, day, hour, minute): ValueError outside the calendar
datetime(year, month, day, hour, minute) ==
    LET LeapYear(y) == (y % 4 = 0 /\ y % 100 # 0) \/ y % 400 = 0
        DaysInMonth(y, m) ==
            IF m = 2 THEN (IF LeapYear(y) THEN 29 ELSE 28)
            ELSE IF m \in {4, 6, 9, 11} THEN 30 ELSE 31
    IN  IF /\ year \in 1..9999
           /\ month \in 1..12
           /\ day \in 1..DaysInMonth(year, month)
           /\ hour \in 0..23
           /\ minute \in 0..59
        THEN Value([year |-> year, month |-> month, day |-> day,
                    hour |-> hour, minute |-> minute, tz |-> FALSE])
        ELSE Raised

\* datetime.fromisoformat on the extended format
\*   YYYY-MM-DD[?HH:MM[:SS[(+|-)HH:MM]]]
\* ValueError on any other text; an offset makes the value aware
fromisoformat(s) ==
    LET n == Len(s)
        num(i, j) == int(SubSeq(s, i, j))
        dateOk ==
            /\ n >= 10
            /\ AllDigits(s, 1, 4) /\ s[5] = "-"
            /\ AllDigits(s, 6, 7) /\ s[8] = "-"
            /\ AllDigits(s, 9, 10)
        minutesOk ==
            /\ n >= 16
            /\ AllDigits(s, 12, 13) /\ s[14] = ":"
            /\ AllDigits(s, 15, 16)
        secondsOk ==
            /\ n >= 19
            /\ s[17] = ":" /\ AllDigits(s, 18, 19)
            /\ num(18, 19) <= 59
        offsetOk ==
            /\ n = 25
            /\ s[20] \in {"+", "-"}
            /\ AllDigits(s, 21, 22) /\ s[23] = ":"
            /\ AllDigits(s, 24, 25)
            /\ num(21, 22) <= 23 /\ num(24, 25) <= 59
        shape ==
            IF ~dateOk THEN "bad"
            ELSE IF n = 10 THEN "date"
            ELSE IF ~minutesOk THEN "bad"
            ELSE IF n = 16 THEN "naive"
            ELSE IF ~secondsOk THEN "bad"
            ELSE IF n = 19 THEN "naive"
            ELSE IF offsetOk THEN "aware"
            ELSE "bad"
        built ==
            IF shape = "date"
            THEN datetime(num(1, 4), num(6, 7), num(9, 10), 0, 0)
            ELSE datetime(num(1, 4), num(6, 7), num(9, 10),
                          num(12, 13), num(15, 16))
    IN  IF shape = "bad" \/ built = Raised THEN Raised
        ELSE IF shape = "aware"
        THEN Value([built.value EXCEPT !.tz = TRUE])
        ELSE built

\* ------------------------------------------------------------ base.py helpers
\* mutant: a label naming German is never an original version
is_original_version_german_never(language) ==
    language # <<>> /\ ~Contains(language, <<"D", "e", "u", "t", "s", "c", "h">>)

\* is_original_version(language)
is_original_version(language) ==
    IF language = <<>> THEN FALSE
    ELSE IF Contains(language, <<"D", "e", "u", "t", "s", "c", "h">>)
    THEN Contains(language,
                  <<"U", "n", "t", "e", "r", "t", "i", "t", "e", "l", ":">>)
    ELSE TRUE

\* config.py GERMAN_MONTH_MAP, as <<key, month>> pairs
GERMAN_MONTH_MAP ==
    { <<<<"j", "a", "n">>, 1>>,
      <<<<"j", "a", "n", "u", "a", "r">>, 1>>,
      <<<<"f", "e", "b">>, 2>>,
      <<<<"f", "e", "b", "r", "u", "a", "r">>, 2>>,
      <<<<"m", "U+CC44", "r">>, 3>>,
      <<<<"m", "U+CC44", "r", "z">>, 3>>,
      <<<<"m", "a", "r">>, 3>>,
      <<<<"a", "p", "r">>, 4>>,
      <<<<"a", "p", "r", "i", "l">>, 4>>,
      <<<<"m", "a", "i">>, 5>>,
      <<<<"m", "a", "y">>, 5>>,
      <<<<"j", "u", "n">>, 6>>,
      <<<<"j", "u", "n", "i">>, 6>>,
      <<<<"j", "u", "l">>, 7>>,
      <<<<"j", "u", "l", "i">>, 7>>,
      <<<<"a", "u", "g">>, 8>>,
      <<<<"a", "u", "g", "u", "s", "t">>, 8>>,
      <<<<"s", "e", "p">>, 9>>,
      <<<<"s", "e", "p", "t", "e", "m", "b", "e", "r">>, 9>>,
      <<<<"o", "k", "t">>, 10>>,
      <<<<"o", "k", "t", "o", "b", "e", "r">>, 10>>,
      <<<<"o", "c", "t">>, 10>>,
      <<<<"n", "o", "v">>, 11>>,
      <<<<"n", "o", "v", "e", "m", "b", "e", "r">>, 11>>,
      <<<<"d", "e", "z">>, 12>>,
      <<<<"d", "e", "z", "e", "m", "b", "e", "r">>, 12>>,
      <<<<"d", "e", "c">>, 12>> }

\* GERMAN_MONTH_MAP.get(key, default)
MonthOf(key, default) ==
    IF \E p \in GERMAN_MONTH_MAP : p[1] = key
    THEN (CHOOSE p \in GERMAN_MONTH_MAP : p[1] = key)[2]
    ELSE default

\* length of the run of letters of s that starts at position j
RECURSIVE LetterRun(_, _)
LetterRun(s, j) ==
    LET IsLetter(c) ==
            \E i \in 1..Len(UpperCase) : UpperCase[i] = c \/ LowerCase[i] = c
    IN  IF j > Len(s) \/ ~IsLetter(s[j]) THEN 0 ELSE 1 + LetterRun(s, j + 1)

\* the pattern (\d{1,2})(letters+)(\d{4}) matches at position i with k day
\* digits
VenueDateMatchAt(s, i, k) ==
    /\ AllDigits(s, i, i + k - 1)
    /\ LET j == i + k
           run == LetterRun(s, j)
       IN  run >= 1 /\ AllDigits(s, j + run, j + run + 3)

\* parse_venue_date(date_str): re.search takes the leftmost match, the day
\* taking two digits when it can
parse_venue_date(date_str) ==
    LET starts == { i \in 1..Len(date_str) :
                      \E k \in {1, 2} : VenueDateMatchAt(date_str, i, k) }
    IN  IF starts = {} THEN None
        ELSE LET i == CHOOSE a \in starts : \A b \in starts : a <= b
                 k == IF VenueDateMatchAt(date_str, i, 2) THEN 2 ELSE 1
                 j == i + k
                 run == LetterRun(date_str, j)
                 day == SubSeq(date_str, i, j - 1)
                 month_str == SubSeq(date_str, j, j + run - 1)
                 year == SubSeq(date_str, j + run, j + run + 3)
                 month == MonthOf(lower(month_str), 1)
             IN  datetime(int(year), month, int(day), 20, 0)

\* ------------------------------------------------------- parse_german_date
\* str.strip(), for the blank
RECURSIVE strip(_)
strip(s) ==
    IF s = <<>> THEN s
    ELSE IF Head(s) = " " THEN strip(Tail(s))
    ELSE IF s[Len(s)] = " " THEN strip(SubSeq(s, 1, Len(s) - 1))
    ELSE s

\* length of the run of digits of s that starts at position i
RECURSIVE DigitRun(_, _)
DigitRun(s, i) ==
    IF i > Len(s) \/ ~IsDigit(s[i]) THEN 0 ELSE 1 + DigitRun(s, i + 1)

\* the formats of base.py 239-244, in the order they are tried
\* the items of a format: a numeric directive (its digits and its range), a
\* literal character, a blank (one or more blanks in the text)
DateFormats ==
    LET Directive(name, min, max, lo, hi) ==
            [kind |-> "num", name |-> name, min |-> min, max |-> max,
             lo |-> lo, hi |-> hi]
        Literal(c) == [kind |-> "lit", c |-> c]
        Blank == [kind |-> "blank"]
        Year_ == Directive("Y", 4, 4, 0, 9999)      \* %Y
        Month_ == Directive("m", 1, 2, 1, 12)       \* %m
        Day_ == Directive("d", 1, 2, 1, 31)         \* %d
        Hour_ == Directive("H", 1, 2, 0, 23)        \* %H
        Minute_ == Directive("M", 1, 2, 0, 59)      \* %M
        Second_ == Directive("S", 1, 2, 0, 61)      \* %S
    IN  << <<Year_, Literal("-"), Month_, Literal("-"), Day_, Literal("T"),
             Hour_, Literal(":"), Minute_, Literal(":"), Second_>>,
           <<Year_, Literal("-"), Month_, Literal("-"), Day_>>,
           <<Day_, Literal("."), Month_, Literal("."), Year_>>,
           <<Day_, Literal("."), Month_, Literal("."), Year_, Blank,
             Hour_, Literal(":"), Minute_>> >>

NoMatch == [ok |-> FALSE, fields |-> {}]

\* the format read against the whole of s from position i: the <<directive,
\* number>> pairs read, or NoMatch
RECURSIVE Scan(_, _, _)
Scan(s, i, fmt) ==
    IF fmt = <<>>
    THEN (IF i = Len(s) + 1 THEN [ok |-> TRUE, fields |-> {}] ELSE NoMatch)
    ELSE LET f == Head(fmt) IN
         IF f.kind = "lit"
         THEN (IF i <= Len(s) /\ s[i] = f.c
               THEN Scan(s, i + 1, Tail(fmt)) ELSE NoMatch)
         ELSE IF f.kind = "blank"
         THEN (IF i <= Len(s) /\ s[i] = " "
               THEN (IF i < Len(s) /\ s[i + 1] = " "
                     THEN Scan(s, i + 1, fmt)
                     ELSE Scan(s, i + 1, Tail(fmt)))
               ELSE NoMatch)
         ELSE LET run == DigitRun(s, i)
                  n == int(SubSeq(s, i, i + run - 1))
              IN  IF run \in f.min..f.max /\ n \in f.lo..f.hi
                  THEN LET rest == Scan(s, i + run, Tail(fmt))
                       IN  IF rest.ok
                           THEN [ok |-> TRUE,
                                 fields |-> rest.fields \cup {<<f.name, n>>}]
                           ELSE NoMatch
                  ELSE NoMatch

\* the number a directive read, `default' when the format has no such directive
Field(fields, name, default) ==
    IF \E p \in fields : p[1] = name
    THEN (CHOOSE p \in fields : p[1] = name)[2]
    ELSE default

\* datetime.strptime(s, fmt): ValueError when the text does not match the
\* format or names no calendar date
strptime(s, fmt) ==
    LET r == Scan(s, 1, fmt)
    IN  IF ~r.ok THEN Raised
        ELSE datetime(Field(r.fields, "Y", 1900), Field(r.fields, "m", 1),
                      Field(r.fields, "d", 1), Field(r.fields, "H", 0),
                      Field(r.fields, "M", 0))

\* for fmt in (...): try: return strptime(...) except ValueError: continue
RECURSIVE TryFormats(_, _)
TryFormats(s, fmts) ==
    IF fmts = <<>> THEN None
    ELSE LET got == strptime(s, Head(fmts))
         IN  IF got = Raised THEN TryFormats(s, Tail(fmts)) ELSE got

\* k digits at position i of s, then the character c
DigitsThen(s, i, k, c) ==
    AllDigits(s, i, i + k - 1) /\ i + k <= Len(s) /\ s[i + k] = c

\* (\d{1,2})\.(\d{1,2})\.(\d{4}) matches at position i with a day of kd and
\* a month of km digits
DottedMatchAt(s, i, kd, km) ==
    /\ DigitsThen(s, i, kd, ".")
    /\ DigitsThen(s, i + kd + 1, km, ".")
    /\ AllDigits(s, i + kd + km + 2, i + kd + km + 5)

\* (\d{1,2}):(\d{2}) matches at position i with an hour of k digits
TimeMatchAt(s, i, k) ==
    DigitsThen(s, i, k, ":") /\ AllDigits(s, i + k + 1, i + k + 2)

\* parse_german_date(date_str)
parse_german_date(date_str) ==
    LET formatted == TryFormats(strip(date_str), DateFormats)
        starts == { i \in 1..Len(date_str) :
                      \E kd, km \in {1, 2} : DottedMatchAt(date_str, i, kd, km) }
        times == { i \in 1..Len(date_str) :
                     \E k \in {1, 2} : TimeMatchAt(date_str, i, k) }
    IN  IF formatted # None THEN formatted
        ELSE IF starts = {} THEN None
        ELSE LET i == CHOOSE a \in starts : \A b \in starts : a <= b
                 kd == IF \E km \in {1, 2} : DottedMatchAt(date_str, i, 2, km)
                       THEN 2 ELSE 1
                 km == IF DottedMatchAt(date_str, i, kd, 2) THEN 2 ELSE 1
                 day == int(SubSeq(date_str, i, i + kd - 1))
                 month == int(SubSeq(date_str, i + kd + 1, i + kd + km))
                 year == int(SubSeq(date_str, i + kd + km + 2, i + kd + km + 5))
             IN  IF times = {} THEN datetime(year, month, day, 20, 0)
                 ELSE LET t == CHOOSE a \in times : \A b \in times : a <= b
                          k == IF TimeMatchAt(date_str, t, 2) THEN 2 ELSE 1
                          hour == int(SubSeq(date_str, t, t + k - 1))
                          minute == int(SubSeq(date_str, t + k + 1, t + k + 2))
                      IN  datetime(year, month, day, hour, minute)

\* ---------------------------------------------------------------- AstorSource
\* data["movies"]: the ids the response describes, and their names
AstorMovies == {1}

AstorTitle(movie_id) == "Film"

\* elements of data["performances"]; an absent key is the empty text
Performances ==
    LET Performance(movieId, language, begin) ==
            [movieId |-> movieId, language |-> language, begin |-> begin]
        LanguageTexts ==
            { <<>>,
              <<"S", "p", "r", "a", "c", "h", "e", ":", " ",
                "D", "e", "u", "t", "s", "c", "h">>,
              <<"S", "p", "r", "a", "c", "h", "e", ":", " ",
                "E", "n", "g", "l", "i", "s", "c", "h">> }
        BeginTexts ==
            { <<>>,
              <<"2", "0", "2", "4", "-", "1", "1", "-", "2", "4", "T",
                "1", "9", ":", "3", "0", ":", "0", "0">>,
              <<"2", "0", "2", "4", "-", "1", "1", "-", "2", "4", "T",
                "1", "9", ":", "3", "0", ":", "0", "0",
                "+", "0", "1", ":", "0", "0">>,
              <<"2", "0", "2", "4", "-", "1", "1", "-", "3", "1", "T",
                "1", "9", ":", "3", "0", ":", "0", "0">>,
              <<"t", "b", "a">> }
    IN  { Performance(m, l, b) :
            m \in {1, 2}, l \in LanguageTexts, b \in BeginTexts }

\* mutant: the language of the performance is not looked at
AstorParsePerformance_unfiltered(performance) ==
    IF performance.movieId \notin AstorMovies THEN None
    ELSE IF performance.begin = <<>> THEN None
    ELSE LET date == fromisoformat(performance.begin)
         IN  IF date = Raised THEN Raised
             ELSE Value(Event(AstorTitle(performance.movieId), date.value,
                              "Astor Grand Cinema", "", "movie",
                              [language |-> performance.language,
                               movie_id |-> performance.movieId]))

\* AstorSource._parse_performance
AstorParsePerformance(performance) ==
    IF performance.movieId \notin AstorMovies THEN None
    ELSE IF ~is_original_version(performance.language) THEN None
    ELSE IF performance.begin = <<>> THEN None
    ELSE LET date == fromisoformat(performance.begin)
         IN  IF date = Raised THEN Raised
             ELSE Value(Event(AstorTitle(performance.movieId), date.value,
                              "Astor Grand Cinema", "", "movie",
                              [language |-> performance.language,
                               movie_id |-> performance.movieId]))

\* -------------------------------------------------------------- CapitolSource
\* one a.hc-card-link-wrapper element: its title (attribute or heading, the
\* empty text when it has neither), whether it holds a time element, and the
\* text of that element
Cards ==
    LET Card(title, has_time, date_str) ==
            [title |-> title, has_time |-> has_time, date_str |-> date_str]
        DateTexts ==
            { <<"A", "B", "2", "2", "N", "O", "V", "2", "0", "2", "5">>,
              <<"3", "1", "N", "O", "V", "2", "0", "2", "5">>,
              <<"s", "o", "o", "n">> }
    IN  { Card(t, h, d) : t \in {"", "Band"}, h \in BOOLEAN, d \in DateTexts }

\* the body of the try block of CapitolSource._parse_event
CapitolParseEventBody(item) ==
    IF item.title = "" THEN None
    ELSE IF ~item.has_time THEN None
    ELSE LET event_date == parse_venue_date(item.date_str)
         IN  IF event_date = Raised THEN Raised
             ELSE IF event_date = None THEN None
             ELSE Value(Event(item.title, event_date.value,
                              "Capitol Hannover", "", "radar",
                              [event_type |-> "concert"]))

\* CapitolSource._parse_event: except Exception -> return None
CapitolParseEvent(item) ==
    LET got == CapitolParseEventBody(item)
    IN  IF got = Raised THEN None ELSE got

\* PavillonSource._parse_event(href, text): the date is read from the text
\* with 20:00 as the time; a day outside the calendar (ValueError, caught in
\* _parse_date_time) or a missing title gives None
PavillonParseEvent(link) ==
    LET event_date == datetime(link.date[3], link.date[2], link.date[1], 20, 0)
    IN  IF event_date = Raised THEN None
        ELSE IF link.title = "" THEN None
        ELSE Value(Event(link.title, event_date.value, "Pavillon",
                         [base |-> "https://pavillon-hannover.de",
                          path |-> link.href],
                         "radar", [event_type |-> "concert"]))

\* ------------------------------------------------------------------ fetch()
\* the pages a source can download: every short page over the records of
\* the source, and for the sources with max_events the pages around the cap,
\* whose records are told apart by their day and of which one may be odd
SourcePages(cls) ==
    LET Day(i) == <<Digits[(i \div 10) + 1], Digits[(i % 10) + 1]>>
        Dated(i) ==
            [title |-> "Band", has_time |-> TRUE,
             date_str |-> <<"A", "B">> \o Day(i)
                            \o <<"N", "O", "V", "2", "0", "2", "5">>]
        \* an anchor with its href (0: none) and what its container's text has
        Link(i) ==
            [href |-> i, has_text |-> TRUE, concert |-> TRUE,
             cancelled |-> FALSE, date |-> <<i, 11, 2025>>, title |-> "Band"]
        Odd(i, kind) ==
            CASE kind = "no href" -> [Link(i) EXCEPT !.href = 0]
              [] kind = "repeated" -> Link(1)
              [] kind = "no text" -> [Link(i) EXCEPT !.has_text = FALSE]
              [] kind = "no concert" -> [Link(i) EXCEPT !.concert = FALSE]
              [] kind = "cancelled" -> [Link(i) EXCEPT !.cancelled = TRUE]
              [] kind = "no such day" -> [Link(i) EXCEPT !.date = <<31, 11, 2025>>]
              [] kind = "no title" -> [Link(i) EXCEPT !.title = ""]
        Lengths(cap) == (0..MaxRecords) \cup ((cap - 1)..(cap + MaxOver))
    IN  CASE cls = "AstorSource" ->
                UNION { [1..n -> Performances] : n \in 0..MaxRecords }
          [] cls = "CapitolSource" ->
                UNION { [1..n -> Cards] : n \in 0..MaxRecords }
                \cup { [i \in 1..n |-> IF i = odd
                                       THEN [Dated(i) EXCEPT !.title = ""]
                                       ELSE Dated(i)] :
                         n \in Lengths(CapitolMaxEvents), odd \in 0..MaxOver }
          [] cls = "PavillonSource" ->
                { [i \in 1..n |-> IF i = odd THEN Odd(i, kind) ELSE Link(i)] :
                    n \in Lengths(PavillonMaxEvents), odd \in 0..MaxOver,
                    kind \in {"no href", "repeated", "no text", "no concert",
                              "cancelled", "no such day", "no title"} }

\* mutant: the whole page is parsed
CapitolLimit_uncapped(items) == Len(items)

\* event_items[:limit], limit = self.max_events or len(event_items)
CapitolLimit(items) ==
    LET limit == IF CapitolMaxEvents # 0 THEN CapitolMaxEvents ELSE Len(items)
    IN  IF limit < Len(items) THEN limit ELSE Len(items)

\* how many records of the page the loop may visit
SourceLimit ==
    IF src_cls = "CapitolSource" THEN CapitolLimit(src_page) ELSE Len(src_page)

\* pavillon.py 112-113: the loop was left by the break
PavillonBroke ==
    /\ src_cls = "PavillonSource"
    /\ PavillonMaxEvents # 0
    /\ Len(src_events) >= PavillonMaxEvents

\* client.get / raise_for_status raises: the exception leaves fetch()
RequestFails ==
    /\ src_pc = "idle"
    /\ src_pc' = "transport_error"
    /\ UNCHANGED <<src_cls, src_page, src_pos, src_events>>
    /\ UNCHANGED <<aggVars, runVars, evVars, fnVars, regVars>>

\* the response arrived; the parse loop starts with an empty events list
RequestSucceeds ==
    /\ src_pc = "idle"
    /\ src_pc' = "parsing"
    /\ src_pos' = 1
    /\ src_events' = <<>>
    /\ UNCHANGED <<src_cls, src_page>>
    /\ UNCHANGED <<aggVars, runVars, evVars, fnVars, regVars>>

\* one turn of a parse loop with what _parse_performance / _parse_event gave
ParseStep(got) ==
    IF got = Raised
    THEN /\ src_pc' = "parse_error"
         /\ UNCHANGED <<src_pos, src_events>>
    ELSE /\ src_pc' = src_pc
         /\ src_pos' = src_pos + 1
         /\ src_events' =
                IF got = None THEN src_events
                ELSE Append(src_events, got.value)

\* astor.py 90-93: one turn of the loop of _parse_response
AstorParseNext ==
    /\ src_cls = "AstorSource"
    /\ src_pc = "parsing"
    /\ src_pos <= SourceLimit
    /\ ParseStep(AstorParsePerformance(src_page[src_pos]))
    /\ UNCHANGED <<src_cls, src_page>>
    /\ UNCHANGED <<aggVars, runVars, evVars, fnVars, regVars>>

\* capitol.py 93-96: one turn of the loop of _parse_events
CapitolParseNext ==
    /\ src_cls = "CapitolSource"
    /\ src_pc = "parsing"
    /\ src_pos <= SourceLimit
    /\ ParseStep(CapitolParseEvent(src_page[src_pos]))
    /\ UNCHANGED <<src_cls, src_page>>
    /\ UNCHANGED <<aggVars, runVars, evVars, fnVars, regVars>>

\* pavillon.py 86-113: one turn of the loop of _parse_events; seen_urls
\* holds the hrefs of the links before this one
PavillonParseNext ==
    /\ src_cls = "PavillonSource"
    /\ src_pc = "parsing"
    /\ src_pos <= SourceLimit
    /\ ~PavillonBroke
    /\ LET link == src_page[src_pos]
           seen_urls == { src_page[j].href : j \in 1..(src_pos - 1) } \ {0}
       IN  IF \/ link.href = 0
              \/ link.href \in seen_urls
              \/ ~link.has_text
              \/ ~link.concert
              \/ link.cancelled
           THEN ParseStep(None)
           ELSE ParseStep(PavillonParseEvent(link))
    /\ UNCHANGED <<src_cls, src_page>>
    /\ UNCHANGED <<aggVars, runVars, evVars, fnVars, regVars>>

\* return events
SourceReturns ==
    /\ src_pc = "parsing"
    /\ src_pos > SourceLimit \/ PavillonBroke
    /\ src_pc' = "returned"
    /\ UNCHANGED <<src_cls, src_page, src_pos, src_events>>
    /\ UNCHANGED <<aggVars, runVars, evVars, fnVars, regVars>>

\* ==================================================================== run()
\* main.py imports fetch_all_events from kinoweek.scrapers (line 17)
Credentials == {"TELEGRAM_BOT_TOKEN", "TELEGRAM_CHAT_ID"}

\* mutant: only the bot token is looked at
Missing_token_only(env) == {"TELEGRAM_BOT_TOKEN"} \ env

\* _validate_environment: the list `missing'
Missing(env) == Credentials \ env

\* config.py CONCERT_VENUES, all enabled
enabled_venues == <<"ZAG Arena", "Swiss Life Hall", "Capitol Hannover">>

LegacyPages(pool) == UNION { [1..n -> pool] : n \in 0..MaxFetch }

\* what the three scrapers can deliver: movies of any date, culture events
\* inside the week (StaatstheaterScraper filters by date range), concerts
Collected == Len(l_movies) + Len(l_culture) + Len(l_radar)

\* an exception that reaches the except clause of run(): return False
RunCatches ==
    /\ run_pc' = "returned"
    /\ run_result' = "False"

\* main.py 104, 52-82: sys.exit(1) when a credential is missing and the run
\* is not local
ValidateEnvironment ==
    /\ run_pc = "validate"
    /\ IF local_only \/ Missing(environ) = {}
       THEN /\ run_pc' = "fetch"
            /\ run_result' = run_result
       ELSE /\ run_pc' = "exited"
            /\ run_result' = "SystemExit"
    /\ UNCHANGED <<local_only, environ, l_today, l_next_week, l_movies,
                   l_culture, l_radar, venue_idx, events_data, notified,
                   invoked, transport_failed>>
    /\ UNCHANGED <<aggVars, srcVars, evVars, fnVars, regVars>>

\* main.py 111, scrapers.py 719-727
LegacyStart ==
    /\ run_pc = "fetch"
    /\ invoked' = invoked \cup {"fetch_all_events"}
    /\ l_today' = Now
    /\ l_next_week' = PlusDays(Now, WeekDays)
    /\ run_pc' = "astor"
    /\ UNCHANGED <<local_only, environ, run_result, l_movies, l_culture,
                   l_radar, venue_idx, events_data, notified, transport_failed>>
    /\ UNCHANGED <<aggVars, srcVars, evVars, fnVars, regVars>>

\* scrapers.py 229-238: the request fails, AstorMovieScraper.fetch logs and
\* re-raises; fetch_all_events has no handler, run() catches
AstorRequestFails ==
    /\ run_pc = "astor"
    /\ invoked' = invoked \cup {"GET Astor Grand Cinema"}
    /\ transport_failed' = transport_failed \cup {"Astor Grand Cinema"}
    /\ RunCatches
    /\ UNCHANGED <<local_only, environ, l_today, l_next_week, l_movies,
                   l_culture, l_radar, venue_idx, events_data, notified>>
    /\ UNCHANGED <<aggVars, srcVars, evVars, fnVars, regVars>>

\* scrapers.py 233, 242-295: _parse_response raises (no handler around
\* datetime.fromisoformat); the exception leaves fetch and fetch_all_events
AstorParseRaises ==
    /\ run_pc = "astor"
    /\ invoked' = invoked \cup {"GET Astor Grand Cinema"}
    /\ RunCatches
    /\ UNCHANGED <<local_only, environ, l_today, l_next_week, l_movies,
                   l_culture, l_radar, venue_idx, events_data, notified,
                   transport_failed>>
    /\ UNCHANGED <<aggVars, srcVars, evVars, fnVars, regVars>>

\* scrapers.py 730
AstorReturns ==
    /\ run_pc = "astor"
    /\ invoked' = invoked \cup {"GET Astor Grand Cinema"}
    /\ \E page \in LegacyPages({ l \in Pool : l.category = "movie" }) :
         /\ Collected + Len(page) <= MaxCollected
         /\ l_movies' = EventsOf("Astor Grand Cinema", page)
    /\ run_pc' = "staatstheater"
    /\ UNCHANGED <<local_only, environ, run_result, l_today, l_next_week,
                   l_culture, l_radar, venue_idx, events_data, notified,
                   transport_failed>>
    /\ UNCHANGED <<aggVars, srcVars, evVars, fnVars, regVars>>

\* scrapers.py 731, 339-347: the request fails, fetch returns []
StaatstheaterRequestFails ==
    /\ run_pc = "staatstheater"
    /\ invoked' = invoked \cup {"GET Staatstheater Hannover"}
    /\ transport_failed' = transport_failed \cup {"Staatstheater Hannover"}
    /\ l_culture' = <<>>
    /\ run_pc' = "concerts"
    /\ UNCHANGED <<local_only, environ, run_result, l_today, l_next_week,
                   l_movies, l_radar, venue_idx, events_data, notified>>
    /\ UNCHANGED <<aggVars, srcVars, evVars, fnVars, regVars>>

\* scrapers.py 731
StaatstheaterReturns ==
    /\ run_pc = "staatstheater"
    /\ invoked' = invoked \cup {"GET Staatstheater Hannover"}
    /\ \E page \in LegacyPages({ Listing("C", 1, FALSE, "culture"),
                               Listing("C", WeekDays, FALSE, "culture") }) :
         /\ Collected + Len(page) <= MaxCollected
         /\ l_culture' = EventsOf("Staatstheater Hannover", page)
    /\ run_pc' = "concerts"
    /\ UNCHANGED <<local_only, environ, run_result, l_today, l_next_week,
                   l_movies, l_radar, venue_idx, events_data, notified,
                   transport_failed>>
    /\ UNCHANGED <<aggVars, srcVars, evVars, fnVars, regVars>>

\* scrapers.py 474-476, 507-512: the venue's request fails, _fetch_venue
\* returns []
VenueRequestFails ==
    /\ run_pc = "concerts"
    /\ venue_idx <= Len(enabled_venues)
    /\ invoked' = invoked \cup {"GET " \o enabled_venues[venue_idx]}
    /\ transport_failed' = transport_failed \cup {enabled_venues[venue_idx]}
    /\ venue_idx' = venue_idx + 1
    /\ UNCHANGED <<local_only, environ, run_pc, run_result, l_today,
                   l_next_week, l_movies, l_culture, l_radar, events_data,
                   notified>>
    /\ UNCHANGED <<aggVars, srcVars, evVars, fnVars, regVars>>

\* scrapers.py 474-476
VenueReturns ==
    /\ run_pc = "concerts"
    /\ venue_idx <= Len(enabled_venues)
    /\ invoked' = invoked \cup {"GET " \o enabled_venues[venue_idx]}
    /\ \E page \in LegacyPages({ l \in Pool : l.category = "radar" }) :
         /\ Collected + Len(page) <= MaxCollected
         /\ l_radar' = l_radar \o EventsOf(enabled_venues[venue_idx], page)
    /\ venue_idx' = venue_idx + 1
    /\ UNCHANGED <<local_only, environ, run_pc, run_result, l_today,
                   l_next_week, l_movies, l_culture, events_data, notified,
                   transport_failed>>
    /\ UNCHANGED <<aggVars, srcVars, evVars, fnVars, regVars>>

\* scrapers.py 735-755; `elapsed' as in FilterAndSort
LegacyFilter ==
    /\ run_pc = "concerts"
    /\ venue_idx > Len(enabled_venues)
    /\ \E elapsed \in 0..MaxElapsed :
         /\ clock' = clock + elapsed
         /\ LET now == DateTime(clock + elapsed, FALSE)
                raises ==
                    \/ \E i \in 1..Len(l_movies) :
                           is_this_week_raises(l_movies[i], now)
                    \/ \E i \in 1..Len(l_radar) :
                           ~Comparable(l_radar[i].date, l_next_week)
            IN  IF raises
                THEN /\ RunCatches
                     /\ events_data' = events_data
                ELSE /\ run_pc' = "notify"
                     /\ run_result' = run_result
                     /\ events_data' =
                          [movies_this_week |-> MoviesThisWeek(l_movies, now),
                           culture_this_week |-> sorted(l_culture),
                           big_events_radar |->
                               BigEventsRadar(l_radar, l_next_week)]
    /\ UNCHANGED <<local_only, environ, l_today, l_next_week, l_movies,
                   l_culture, l_radar, venue_idx, notified, invoked,
                   transport_failed>>
    /\ UNCHANGED <<callVars, srcVars, evVars, fnVars, regVars>>

\* main.py 123-127, notifier.py 518-532: the local branch of notify; a write
\* that fails is caught by notify, which returns False
NotifyLocal ==
    /\ run_pc = "notify"
    /\ local_only
    /\ notified' = events_data
    /\ \E written \in BOOLEAN :
         /\ invoked' = invoked \cup {"notify", "save_to_file"}
         /\ run_result' = IF written THEN "True" ELSE "False"
    /\ run_pc' = "returned"
    /\ UNCHANGED <<local_only, environ, l_today, l_next_week, l_movies,
                   l_culture, l_radar, venue_idx, events_data,
                   transport_failed>>
    /\ UNCHANGED <<aggVars, srcVars, evVars, fnVars, regVars>>

\* notifier.py 346-389, given what the Telegram API answers to the POST:
\* ValueError without credentials; True when the answer says ok, False when it does not or when the request fails
\* (httpx.RequestError is caught); raise_for_status raises
\* httpx.HTTPStatusError, which is no RequestError and leaves the function
send_telegram_message(env, answer) ==
    IF ~(Credentials \subseteq env) THEN Raised
    ELSE CASE answer = "ok" -> Value(TRUE)
           [] answer = "not ok" -> Value(FALSE)
           [] answer = "RequestError" -> Value(FALSE)
           [] answer = "HTTPStatusError" -> Raised

\* mutant: the backup is written whatever the send came back with
NotifyOutcome_backup_always(success, exported) ==
    [invoked |-> {"save_to_file"} \cup
                 (IF success = Value(TRUE) THEN {"send returned True"}
                  ELSE IF success = Raised THEN {"send raised"}
                  ELSE {"send returned False"}),
     result |-> IF success = Value(TRUE) /\ exported THEN "True" ELSE "False"]

\* what the production branch of notify leaves behind, given what the send
\* came back with and whether save_all_formats could write its files: the
\* operations set off, how the send ended, and the value returned
NotifyOutcome(success, exported) ==
    IF success = Value(TRUE)
    THEN [invoked |-> {"send returned True", "save_to_file"},
          result |-> IF exported THEN "True" ELSE "False"]
    ELSE [invoked |-> IF success = Raised THEN {"send raised"}
                      ELSE {"send returned False"},
          result |-> "False"]

\* main.py 123-130, notifier.py 534-543: the production branch of notify;
\* the backup is written when the send returned True; every exception, of
\* the send or of the export, is caught by notify, which returns False
NotifyTelegram ==
    /\ run_pc = "notify"
    /\ ~local_only
    /\ notified' = events_data
    /\ \E answer \in {"ok", "not ok", "RequestError", "HTTPStatusError"},
          exported \in BOOLEAN :
         LET success == send_telegram_message(environ, answer)
             outcome == NotifyOutcome(success, exported)
             posted == IF Credentials \subseteq environ
                       THEN {"POST sendMessage"} ELSE {}
         IN  /\ invoked' = invoked \cup {"notify"} \cup posted
                              \cup outcome.invoked
             /\ run_result' = outcome.result
    /\ run_pc' = "returned"
    /\ UNCHANGED <<local_only, environ, l_today, l_next_week, l_movies,
                   l_culture, l_radar, venue_idx, events_data,
                   transport_failed>>
    /\ UNCHANGED <<aggVars, srcVars, evVars, fnVars, regVars>>

\* ========================================================= Event(...)
\* values a caller can pass as category; the annotation is not enforced
EventInputs ==
    LET CategoryInputs == EventCategory \cup {"festival", ""}
    IN  { Event(t, DateTime(at, FALSE), "Venue", "", c, NoMetadata) :
            t \in {"A", "B"}, at \in {0, WeekDays + 1}, c \in CategoryInputs }

\* models.py 23-54: the generated __init__ stores what it is given
ConstructEvent ==
    /\ Len(made) < MaxMade
    /\ \E e \in EventInputs : made' = Append(made, e)
    /\ meta_ref' = Append(meta_ref, 0)
    /\ UNCHANGED dicts
    /\ UNCHANGED <<aggVars, srcVars, runVars, fnVars, regVars>>

\* mutant: one dict, built once, serves every Event
default_factory_shared(heap) == 1

\* models.py 54: field(default_factory=dict) calls dict() for each Event
\* constructed without metadata; the id of the dict it builds
default_factory(heap) == Len(heap) + 1

\* models.py 23-54: Event(...) without the metadata argument
ConstructEventDefault ==
    /\ Len(made) < MaxMade
    /\ \E e \in EventInputs : made' = Append(made, e)
    /\ LET id == default_factory(dicts)
       IN  /\ meta_ref' = Append(meta_ref, id)
           /\ dicts' = IF id > Len(dicts) THEN Append(dicts, {}) ELSE dicts
    /\ UNCHANGED <<aggVars, srcVars, runVars, fnVars, regVars>>

\* event.metadata[key] = ... on an Event constructed without metadata
MetadataSetItem ==
    /\ \E i \in 1..Len(made), key \in {"year", "language"} :
         /\ meta_ref[i] # 0
         /\ key \notin dicts[meta_ref[i]]
         /\ dicts' = [dicts EXCEPT ![meta_ref[i]] = @ \cup {key}]
    /\ UNCHANGED <<made, meta_ref>>
    /\ UNCHANGED <<aggVars, srcVars, runVars, fnVars, regVars>>

\* ======================================================= the pure helpers
\* ----------------------------------------------------------------- inputs
\* language labels: head, language, tail
Labels ==
    LET LabelHeads ==
            { <<>>,
              <<"S", "p", "r", "a", "c", "h", "e", ":", " ">> }
        LabelLanguages ==
            { <<>>,
              <<"D", "e", "u", "t", "s", "c", "h">>,
              <<"E", "n", "g", "l", "i", "s", "c", "h">> }
        LabelTails ==
            { <<>>,
              <<",", " ", "U", "n", "t", "e", "r", "t", "i", "t", "e", "l",
                ":", " ", "E", "n", "g", "l", "i", "s", "c", "h">>,
              <<" ", "m", "i", "t", " ", "U", "n", "t", "e", "r", "t", "i",
                "t", "e", "l", "n">> }
    IN  { h \o l \o t :
            h \in LabelHeads, l \in LabelLanguages, t \in LabelTails }

\* DD.MM.YYYY texts with the numbers they spell
DottedDates ==
    { [text |-> <<"2", "0", ".", "1", "1", ".", "2", "0", "2", "5">>,
       day |-> 20, month |-> 11, year |-> 2025],
      [text |-> <<"5", ".", "3", ".", "2", "0", "2", "5">>,
       day |-> 5, month |-> 3, year |-> 2025],
      [text |-> <<"3", "1", ".", "1", "1", ".", "2", "0", "2", "5">>,
       day |-> 31, month |-> 11, year |-> 2025],
      [text |-> <<"9", "9", ".", "9", "9", ".", "2", "0", "2", "5">>,
       day |-> 99, month |-> 99, year |-> 2025] }

DateHeads ==
    { <<>>,
      <<"F", "r", ",", " ">> }

\* what can follow the date, with the time it spells
TimeTails ==
    { [text |-> <<" ", "1", "9", ":", "3", "0">>,
       hour |-> 19, minute |-> 30],
      [text |-> <<" ", "|", " ", "1", "8", ":", "0", "0", " ", "U", "h",
                  "r">>,
       hour |-> 18, minute |-> 0] }

GermanDateTexts ==
    LET UndatedTexts ==
            { <<"n", "o", "t", " ", "a", " ", "d", "a", "t", "e">>,
              <<"2", "0", "2", "5", "-", "1", "1", "-", "2", "0">> }
    IN  { h \o d \o t :
            h \in DateHeads,
            d \in {x.text : x \in DottedDates} \cup UndatedTexts,
            t \in {<<>>} \cup {x.text : x \in TimeTails} }

\* compact venue dates: head, day, month token, year
VenueHeads ==
    { <<>>,
      <<"A", "B">> }

DayTexts ==
    { [text |-> <<"5">>,
       day |-> 5],
      [text |-> <<"2", "2">>,
       day |-> 22],
      [text |-> <<"3", "1">>,
       day |-> 31],
      [text |-> <<"3", "2">>,
       day |-> 32] }

\* the keys of the month table as they stand, the same in capitals, a token
\* that is no month, and March the way a page spells it
MonthTokens ==
    LET upper(s) ==
            [k \in 1..Len(s) |->
                IF \E i \in 1..Len(LowerCase) : LowerCase[i] = s[k]
                THEN UpperCase[CHOOSE i \in 1..Len(LowerCase) :
                                    LowerCase[i] = s[k]]
                ELSE s[k]]
        MonthKeys == { p[1] : p \in GERMAN_MONTH_MAP }
        OtherTokens ==
            { <<"X", "Y", "Z">>,
              <<"M", "A-uml", "R">> }
    IN  MonthKeys \cup { upper(k) : k \in MonthKeys } \cup OtherTokens

YearTexts ==
    { [text |-> <<"2", "0", "2", "5">>,
       year |-> 2025] }

VenueDateTexts ==
    { h \o d.text \o m \o y.text :
        h \in VenueHeads, d \in DayTexts, m \in MonthTokens, y \in YearTexts }

\* ------------------------------------------------------------------ calls
\* one call of a helper on one input
CallIsOriginalVersion ==
    /\ called = "none"
    /\ \E language \in Labels :
         /\ called' = "is_original_version"
         /\ arg' = language
         /\ out' = Value(is_original_version(language))
    /\ UNCHANGED <<aggVars, srcVars, runVars, evVars, regVars>>

CallParseGermanDate ==
    /\ called = "none"
    /\ \E date_str \in GermanDateTexts :
         /\ called' = "parse_german_date"
         /\ arg' = date_str
         /\ out' = parse_german_date(date_str)
    /\ UNCHANGED <<aggVars, srcVars, runVars, evVars, regVars>>

CallParseVenueDate ==
    /\ called = "none"
    /\ \E date_str \in VenueDateTexts :
         /\ called' = "parse_venue_date"
         /\ arg' = date_str
         /\ out' = parse_venue_date(date_str)
    /\ UNCHANGED <<aggVars, srcVars, runVars, evVars, regVars>>

\* ------------------------------------------------------ group_movies_by_film
\* mutant: the key is the title alone
film_key_title_only(event) == event.title

\* f"{event.title}_{event.metadata.get('year', 0)}"
film_key(event) ==
    LET RECURSIVE str(_)
        str(n) ==
            IF n < 10 THEN <<Digits[n + 1]>>
            ELSE str(n \div 10) \o <<Digits[(n % 10) + 1]>>
        year == IF "year" \in DOMAIN event.metadata
                THEN event.metadata.year ELSE 0
    IN  event.title \o <<"_">> \o str(year)

\* mutant: the films stay in the order of their first arrival
sort_films_skipped(films) == films

\* result.sort(key=lambda m: m.showtimes[0].date if m.showtimes else ""):
\* stable, by the "%Y-%m-%d" text of the first showtime in the list
sort_films(films) ==
    LET key(m) == IF m.showtimes = <<>> THEN <<>> ELSE m.showtimes[1].date
        Before(a, b) ==
            \/ a = <<>> /\ b # <<>>
            \/ /\ a # <<>> /\ b # <<>>
               /\ \E k \in 1..3 :
                    /\ a[k] < b[k]
                    /\ \A h \in 1..(k - 1) : a[h] = b[h]
        RECURSIVE Sorted(_)
        Sorted(n) ==
            IF n = 0 THEN <<>>
            ELSE LET done == Sorted(n - 1)
                     m == films[n]
                     at == Cardinality({ i \in 1..Len(done) :
                                           ~Before(key(m), key(done[i])) })
                 IN  SubSeq(done, 1, at) \o <<m>>
                         \o SubSeq(done, at + 1, Len(done))
    IN  Sorted(Len(films))

\* group_movies_by_film(movies)
group_movies_by_film(movies) ==
    LET Showtime(event) ==
            [date |-> <<event.date.year, event.date.month, event.date.day>>,
             time |-> <<event.date.hour, event.date.minute>>]
        GroupedMovie(event) ==
            [key |-> film_key(event),
             title |-> event.title,
             year |-> IF "year" \in DOMAIN event.metadata
                      THEN event.metadata.year ELSE 0,
             showtimes |-> <<>>]
        RECURSIVE Films(_)
        Films(n) ==
            IF n = 0 THEN <<>>
            ELSE LET films == Films(n - 1)
                     event == movies[n]
                     known == \E i \in 1..Len(films) :
                                 films[i].key = film_key(event)
                     with == IF known THEN films
                             ELSE Append(films, GroupedMovie(event))
                 IN  [i \in 1..Len(with) |->
                        IF with[i].key = film_key(event)
                        THEN [with[i] EXCEPT
                                !.showtimes = Append(@, Showtime(event))]
                        ELSE with[i]]
    IN  sort_films(Films(Len(movies)))

\* movie events to group: two titles, the year absent, 0 or 2010, three starts
GroupInputs ==
    { Event(title, [year |-> 2024, month |-> 11, day |-> at[1],
                    hour |-> at[2], minute |-> at[3], tz |-> FALSE],
            "Astor Grand Cinema", "", "movie", metadata) :
        title \in {<<"A">>, <<"B">>},
        at \in {<<24, 17, 0>>, <<24, 19, 30>>, <<25, 20, 0>>},
        metadata \in {NoMetadata, [year |-> 0], [year |-> 2010]} }

CallGroupMovies ==
    /\ called = "none"
    /\ \E n \in 0..MaxMovies :
         \E movies \in [1..n -> GroupInputs] :
            /\ called' = "group_movies_by_film"
            /\ arg' = movies
            /\ out' = Value(group_movies_by_film(movies))
    /\ UNCHANGED <<aggVars, srcVars, runVars, evVars, regVars>>

\* ============================================================ the message
\* mutant: the cut is made at the limit itself
truncate_at_limit(message) ==
    IF Len(message) > TELEGRAM_MESSAGE_MAX_LENGTH
    THEN SubSeq(message, 1, TELEGRAM_MESSAGE_MAX_LENGTH)
            \o <<"\n", "\n", ".", ".", ".", " ", "(", "t", "r", "u", "n", "c",
              "a", "t", "e", "d", ")">>
    ELSE message

\* notifier.py 225-227
truncate(message) ==
    IF Len(message) > TELEGRAM_MESSAGE_MAX_LENGTH
    THEN SubSeq(message, 1, TELEGRAM_MESSAGE_MAX_LENGTH - TruncationReserve)
            \o <<"\n", "\n", ".", ".", ".", " ", "(", "t", "r", "u", "n", "c",
              "a", "t", "e", "d", ")">>
    ELSE message

\* "\n".join(lines)
RECURSIVE join(_)
join(lines) ==
    IF lines = <<>> THEN <<>>
    ELSE IF Len(lines) = 1 THEN lines[1]
    ELSE lines[1] \o <<"\n">> \o join(Tail(lines))

\* mutant: an empty list leaves the heading alone
empty_section_bare(heading, notice) == heading

\* lines.append(notice); return "\n".join(lines)
empty_section(heading, notice) == join(<<heading, notice>>)

\* _format_movies_section(movies); an event carries the texts that
\* format_date_short, _format_movie_metadata, strftime("%H:%M") and
\* _abbreviate_language make of it
format_movies_section(movies) ==
    LET heading == <<"*", "M", "o", "v", "i", "e", "s", " ", "(", "T", "h", "i",
              "s", " ", "W", "e", "e", "k", ")", "*">>
        Entry(event) ==
            << <<" ", " ", "*">> \o event.title
                   \o (IF event.year # <<>>
                       THEN <<" ", "(">> \o event.year \o <<")">>
                       ELSE <<>>)
                   \o <<"*">> >>
            \o (IF event.meta # <<>>
                THEN << <<" ", " ", "_">> \o event.meta \o <<"_">> >>
                ELSE <<>>)
            \o << <<" ", " ">> \o event.time \o <<" ", "(">>
                   \o event.language \o <<")">> >>
        RECURSIVE Keys(_)
        Keys(n) ==
            IF n = 0 THEN <<>>
            ELSE IF \E k \in 1..(n - 1) : movies[k].date_key = movies[n].date_key
            THEN Keys(n - 1)
            ELSE Append(Keys(n - 1), movies[n].date_key)
        RECURSIVE Entries(_, _)
        Entries(date_key, n) ==
            IF n = 0 THEN <<>>
            ELSE Entries(date_key, n - 1)
                    \o (IF movies[n].date_key = date_key
                        THEN Entry(movies[n]) ELSE <<>>)
        RECURSIVE Days(_)
        Days(keys) ==
            IF keys = <<>> THEN <<>>
            ELSE << <<"\n", "*">> \o Head(keys) \o <<"*">> >>
                    \o Entries(Head(keys), Len(movies))
                    \o Days(Tail(keys))
    IN  IF movies = <<>>
        THEN empty_section(heading,
                    <<"_", "N", "o", " ", "O", "V", " ", "m", "o", "v",
                      "i", "e", "s", " ", "t", "h", "i", "s", " ", "w",
                      "e", "e", "k", "_">>)
        ELSE join(<<heading>> \o Days(Keys(Len(movies))))

\* _format_radar_section(radar); an event carries the texts that
\* _format_concert_date, metadata.get("time", "20:00") and _abbreviate_venue
\* make of it
format_radar_section(radar) ==
    LET heading == <<"*", "O", "n", " ", "T", "h", "e", " ", "R", "a", "d", "a",
              "r", "*">>
        Entry(event) ==
            << <<" ", " ", "*">> \o event.title \o <<"*">>,
               <<" ", " ">> \o event.date_str \o <<" ", "|", " ">>
                   \o event.time \o <<" ", "@", " ">> \o event.venue >>
        RECURSIVE Entries(_)
        Entries(n) ==
            IF n = 0 THEN <<>> ELSE Entries(n - 1) \o Entry(radar[n])
    IN  IF radar = <<>>
        THEN empty_section(heading,
                    <<"_", "N", "o", " ", "u", "p", "c", "o", "m", "i",
                      "n", "g", " ", "e", "v", "e", "n", "t", "s", "_">>)
        ELSE join(<<heading>> \o Entries(Len(radar)))

\* notifier.py 212-222: the message before the limit is applied; week_num is
\* the text of datetime.now().isocalendar()[1]
compose_message(data, week_num) ==
    LET RECURSIVE strip_(_)
        strip_(s) ==
            IF s = <<>> THEN s
            ELSE IF Head(s) \in {" ", "\n"} THEN strip_(Tail(s))
            ELSE IF s[Len(s)] \in {" ", "\n"}
            THEN strip_(SubSeq(s, 1, Len(s) - 1))
            ELSE s
    IN  strip_(join(<<<<"*", "H", "a", "n", "n", "o", "v", "e", "r", " ", "W",
                  "e", "e", "k", " ">>
                        \o week_num \o <<"*", "\n">>,
                      format_movies_section(data.movies_this_week),
                      <<>>,
                      format_radar_section(data.big_events_radar)>>))

\* format_message(events_data)
format_message(data, week_num) ==
    truncate(compose_message(data, week_num))

\* ------------------------------------------------------------------ inputs
\* a title of n characters
Filler(n) == [i \in 1..n |-> "x"]

\* movie events as format_message reads them
FormatMovies ==
    { [title |-> Filler(9), year |-> <<"2", "0", "1", "0">>,
       date_key |-> <<"S", "u", "n", " ", "2", "4", ".", "1", "1", ".">>,
       meta |-> <<"2", "h", "2", "8", "m", " ", "|", " ", "F", "S", "K",
                  "1", "2">>,
       time |-> <<"1", "9", ":", "3", "0">>, language |-> <<"E", "N">>],
      [title |-> Filler(2000), year |-> <<>>,
       date_key |-> <<"M", "o", "n", " ", "2", "5", ".", "1", "1", ".">>,
       meta |-> <<>>,
       time |-> <<"2", "0", ":", "0", "0">>, language |-> <<"E", "N">>] }

\* concert events as format_message reads them; the longer titles bring a
\* message with no movie and one concert to one character under the limit,
\* to the limit, and past it
FormatConcerts ==
    { [title |-> Filler(n),
       date_str |-> <<"S", "a", ",", " ", "2", "9", ".", " ", "N", "o", "v">>,
       time |-> <<"2", "0", ":", "0", "0">>,
       venue |-> <<"C", "a", "p", "i", "t", "o", "l">>] :
        n \in {9, 3978, 3979, 3980, 5000} }

CallFormatMessage ==
    /\ called = "none"
    /\ \E m \in 0..MaxListed, r \in 0..MaxListed :
         \E movies \in [1..m -> FormatMovies],
            culture \in {<<>>, <<CHOOSE c \in FormatConcerts : Len(c.title) = 9>>},
            radar \in [1..r -> FormatConcerts],
            week_num \in {<<"5">>, <<"4", "7">>} :
            /\ called' = "format_message"
            /\ arg' = [events_data |-> [movies_this_week |-> movies,
                                        culture_this_week |-> culture,
                                        big_events_radar |-> radar],
                       week_num |-> week_num]
            /\ out' = Value(format_message(arg'.events_data, week_num))
    /\ UNCHANGED <<aggVars, srcVars, runVars, evVars, regVars>>

\* ==================================================== the source registry
\* -------------------------------------------------------- modules and classes
\* source modules that discovery finds, in the order it finds them, each with
\* the name and the source_type of the class it registers
SourceModules ==
    << [module |-> "kinoweek.sources.cinema.astor",
        name |-> "astor_hannover", source_type |-> "cinema"],
       [module |-> "kinoweek.sources.concerts.capitol",
        name |-> "capitol_hannover", source_type |-> "concert"] >>

ModuleNames == { SourceModules[k].module : k \in 1..Len(SourceModules) }

\* a class a caller registers by hand; `defined' tells class objects that
\* separate executions of one definition create apart
CallerClasses ==
    { [id |-> "TestSource", source_type |-> "cinema", defined |-> 1] }

RegNames ==
    { SourceModules[k].name : k \in 1..Len(SourceModules) } \cup {"test_source"}

\* ------------------------------------------------------------------ mappings
\* d.keys(), in insertion order
keys(d) == [i \in 1..Len(d) |-> d[i].name]

\* d[name] = cls: a key already there keeps its place
setitem(d, name, cls) ==
    IF \E i \in 1..Len(d) : d[i].name = name
    THEN [i \in 1..Len(d) |->
            IF d[i].name = name THEN [name |-> name, cls |-> cls] ELSE d[i]]
    ELSE Append(d, [name |-> name, cls |-> cls])

\* mutant: return _REGISTRY
copy_alias(d) == [alias |-> TRUE, items |-> d]

\* d.copy(): another mapping with the same entries
copy(d) == [alias |-> FALSE, items |-> d]

\* ----------------------------------------------------------------- interface
\* mutant: a name already registered keeps its class
register_source_keeps_first(reg, name, cls) ==
    IF \E i \in 1..Len(reg) : reg[i].name = name
    THEN reg
    ELSE Append(reg, [name |-> name, cls |-> cls])

\* register_source(name)(cls): _REGISTRY[name] = cls
register_source(reg, name, cls) ==
    setitem(reg, name, cls)

\* mutant: _REGISTRY.get(name)
get_source_lenient(reg, name) ==
    IF ~ \E i \in 1..Len(reg) : reg[i].name = name
    THEN None
    ELSE Value(reg[CHOOSE i \in 1..Len(reg) : reg[i].name = name].cls)

\* get_source(name)
get_source(reg, name) ==
    IF ~ \E i \in 1..Len(reg) : reg[i].name = name
    THEN [outcome |-> "raised", error |-> "KeyError", available |-> keys(reg)]
    ELSE Value(reg[CHOOSE i \in 1..Len(reg) : reg[i].name = name].cls)

\* get_sources_by_type(source_type)
get_sources_by_type(reg, source_type) ==
    LET OfType(entry) == entry.cls.source_type = source_type
    IN  SelectSeq(reg, OfType)

\* mutant: every import executes the module
cached_never(sys, module) == FALSE

\* importlib.import_module: a module in sys.modules is not executed again
cached(sys, module) == sys[module] # 0

\* the loops of discover_sources from the k-th module on
RECURSIVE ImportModules(_, _, _, _)
ImportModules(k, reg, sys, discovered) ==
    IF k > Len(SourceModules)
    THEN [registry |-> reg, sys_modules |-> sys, discovered |-> discovered]
    ELSE LET m == SourceModules[k]
         IN  IF m.module \in unimportable
             THEN ImportModules(k + 1, reg, sys, discovered)
             ELSE IF cached(sys, m.module)
             THEN ImportModules(k + 1, reg, sys, discovered + 1)
             ELSE ImportModules(
                      k + 1,
                      register_source(reg, m.name,
                                      [id |-> m.module,
                                       source_type |-> m.source_type,
                                       defined |-> sys[m.module] + 1]),
                      [sys EXCEPT ![m.module] = @ + 1],
                      discovered + 1)

\* ------------------------------------------------------------------- actions
\* discover_sources(); the first call is the one of sources/__init__.py 91
DiscoverSources ==
    /\ runs < MaxRuns
    /\ LET r == ImportModules(1, registry, sys_modules, 0)
       IN  /\ registry' = r.registry
           /\ sys_modules' = r.sys_modules
           /\ last_call' = [call |-> "discover_sources", name |-> "",
                            result |-> Value([discovered |-> r.discovered])]
           /\ after_first' = IF runs = 0 THEN r.registry ELSE after_first
    /\ runs' = runs + 1
    /\ UNCHANGED <<mapping, unimportable, reg_calls>>
    /\ UNCHANGED <<aggNoRegistry, srcVars, runVars, evVars, fnVars>>

\* @register_source(name) on a class of the caller
RegisterSource ==
    /\ runs >= 1
    /\ reg_calls < MaxCalls
    /\ \E name \in RegNames, cls \in CallerClasses :
         /\ registry' = register_source(registry, name, cls)
         /\ last_call' = [call |-> "register_source", name |-> name,
                          result |-> Value(cls)]
    /\ reg_calls' = reg_calls + 1
    /\ UNCHANGED <<mapping, sys_modules, unimportable, runs, after_first>>
    /\ UNCHANGED <<aggNoRegistry, srcVars, runVars, evVars, fnVars>>

GetSource ==
    /\ runs >= 1
    /\ reg_calls < MaxCalls
    /\ \E name \in RegNames :
         last_call' = [call |-> "get_source", name |-> name,
                       result |-> get_source(registry, name)]
    /\ reg_calls' = reg_calls + 1
    /\ UNCHANGED <<mapping, sys_modules, unimportable, runs, after_first>>
    /\ UNCHANGED <<aggVars, srcVars, runVars, evVars, fnVars>>

GetAllSources ==
    /\ runs >= 1
    /\ reg_calls < MaxCalls
    /\ mapping' = copy(get_all_sources)
    /\ last_call' = [call |-> "get_all_sources", name |-> "",
                     result |-> Value(mapping')]
    /\ reg_calls' = reg_calls + 1
    /\ UNCHANGED <<sys_modules, unimportable, runs, after_first>>
    /\ UNCHANGED <<aggVars, srcVars, runVars, evVars, fnVars>>

GetSourcesByType ==
    /\ runs >= 1
    /\ reg_calls < MaxCalls
    /\ \E source_type \in {"cinema", "concert"} :
         /\ mapping' = [alias |-> FALSE,
                        items |-> get_sources_by_type(registry, source_type)]
         /\ last_call' = [call |-> "get_sources_by_type", name |-> source_type,
                          result |-> Value(mapping')]
    /\ reg_calls' = reg_calls + 1
    /\ UNCHANGED <<sys_modules, unimportable, runs, after_first>>
    /\ UNCHANGED <<aggVars, srcVars, runVars, evVars, fnVars>>

\* the caller adds, replaces or removes an entry of the mapping it was handed
MutateMapping ==
    /\ runs >= 1
    /\ reg_calls < MaxCalls
    /\ mapping # NoMapping
    /\ \E changed \in
            { setitem(mapping.items, name, cls) :
                name \in RegNames, cls \in CallerClasses }
            \cup
            { SelectSeq(mapping.items, LAMBDA entry : entry.name # name) :
                name \in RegNames } :
         /\ changed # mapping.items
         /\ mapping' = [mapping EXCEPT !.items = changed]
         /\ registry' = IF mapping.alias THEN changed ELSE registry
    /\ last_call' = [call |-> "mutate the mapping", name |-> "",
                     result |-> None]
    /\ reg_calls' = reg_calls + 1
    /\ UNCHANGED <<sys_modules, unimportable, runs, after_first>>
    /\ UNCHANGED <<aggNoRegistry, srcVars, runVars, evVars, fnVars>>

\* ------------------------------------------------------------ specifications
AggregatorAtRest ==
    /\ clock = 0
    /\ pc = "idle"
    /\ today = DateTime(0, FALSE)
    /\ next_week = DateTime(0, FALSE)
    /\ sources = <<>>
    /\ idx = 1
    /\ all_movies = <<>>
    /\ radar_events = <<>>
    /\ result = NoResult
    /\ calls = [n \in Names |-> 0]
    /\ failed = {}
    /\ returned = [n \in Names |-> <<>>]

DefaultRegistry ==
    [i \in Names |-> [name |-> i, cls |-> SourceClass("ok", TRUE, TRUE)]]

SourceAtRest ==
    /\ src_pos = 1
    /\ src_events = <<>>
    /\ src_pc = "idle"

RunAtRest ==
    /\ run_pc = "validate"
    /\ run_result = "none"
    /\ l_today = DateTime(0, FALSE)
    /\ l_next_week = DateTime(0, FALSE)
    /\ l_movies = <<>>
    /\ l_culture = <<>>
    /\ l_radar = <<>>
    /\ venue_idx = 1
    /\ events_data = NoResult
    /\ notified = NoResult
    /\ invoked = {}
    /\ transport_failed = {}

EventsAtRest ==
    /\ made = <<>>
    /\ meta_ref = <<>>
    /\ dicts = <<>>

HelpersAtRest ==
    /\ called = "none"
    /\ arg = <<>>
    /\ out = None

RegistryAtRest ==
    /\ mapping = NoMapping
    /\ last_call = [call |-> "none", name |-> "", result |-> None]
    /\ sys_modules = [m \in ModuleNames |-> 0]
    /\ unimportable = {}
    /\ runs = 0
    /\ reg_calls = 0
    /\ after_first = <<>>

Init ==
    /\ registry \in Registries
    /\ AggregatorAtRest
    /\ src_cls = "AstorSource" /\ src_page = <<>> /\ SourceAtRest
    /\ local_only = FALSE /\ environ = Credentials /\ RunAtRest
    /\ EventsAtRest
    /\ HelpersAtRest
    /\ RegistryAtRest

InitSource ==
    /\ registry = DefaultRegistry
    /\ AggregatorAtRest
    /\ src_cls \in {"AstorSource", "CapitolSource", "PavillonSource"}
    /\ src_page \in SourcePages(src_cls)
    /\ SourceAtRest
    /\ local_only = FALSE /\ environ = Credentials /\ RunAtRest
    /\ EventsAtRest
    /\ HelpersAtRest
    /\ RegistryAtRest

InitRun ==
    /\ registry = DefaultRegistry
    /\ AggregatorAtRest
    /\ src_cls = "AstorSource" /\ src_page = <<>> /\ SourceAtRest
    /\ local_only \in BOOLEAN
    /\ environ \in SUBSET Credentials
    /\ RunAtRest
    /\ EventsAtRest
    /\ HelpersAtRest
    /\ RegistryAtRest

\* notify called on its own, as the tests call it: any mode, any environment
InitNotify ==
    /\ registry = DefaultRegistry
    /\ AggregatorAtRest
    /\ src_cls = "AstorSource" /\ src_page = <<>> /\ SourceAtRest
    /\ local_only \in BOOLEAN
    /\ environ \in SUBSET Credentials
    /\ run_pc = "notify"
    /\ run_result = "none"
    /\ l_today = DateTime(0, FALSE)
    /\ l_next_week = DateTime(0, FALSE)
    /\ l_movies = <<>>
    /\ l_culture = <<>>
    /\ l_radar = <<>>
    /\ venue_idx = 1
    /\ LET Lists(category) ==
               UNION { [1..n -> { Listing(t, at, FALSE, category) :
                                    t \in {"A", "B"}, at \in {0, WeekDays + 1} }] :
                         n \in 0..MaxListed }
       IN  events_data \in
               { [movies_this_week |-> m, culture_this_week |-> <<>>,
                  big_events_radar |-> r] :
                   m \in Lists("movie"), r \in {<<>>} \cup
                       { <<Listing("A", WeekDays + 1, FALSE, "radar")>> } }
    /\ notified = NoResult
    /\ invoked = {}
    /\ transport_failed = {}
    /\ EventsAtRest
    /\ HelpersAtRest
    /\ RegistryAtRest

InitHelpers ==
    /\ registry = DefaultRegistry
    /\ AggregatorAtRest
    /\ src_cls = "AstorSource" /\ src_page = <<>> /\ SourceAtRest
    /\ local_only = FALSE /\ environ = Credentials /\ RunAtRest
    /\ EventsAtRest
    /\ HelpersAtRest
    /\ RegistryAtRest

InitEvent ==
    /\ registry = DefaultRegistry
    /\ AggregatorAtRest
    /\ src_cls = "AstorSource" /\ src_page = <<>> /\ SourceAtRest
    /\ local_only = FALSE /\ environ = Credentials /\ RunAtRest
    /\ EventsAtRest
    /\ HelpersAtRest
    /\ RegistryAtRest

\* before the package is imported: nothing registered, no module loaded
InitRegistry ==
    /\ registry = <<>>
    /\ AggregatorAtRest
    /\ src_cls = "AstorSource" /\ src_page = <<>> /\ SourceAtRest
    /\ local_only = FALSE /\ environ = Credentials /\ RunAtRest
    /\ EventsAtRest
    /\ HelpersAtRest
    /\ mapping = NoMapping
    /\ last_call = [call |-> "none", name |-> "", result |-> None]
    /\ sys_modules = [m \in ModuleNames |-> 0]
    /\ unimportable \in SUBSET ModuleNames
    /\ runs = 0
    /\ reg_calls = 0
    /\ after_first = <<>>

Next ==
    \/ Start
    \/ InstantiationFails
    \/ SkipDisabled
    \/ NameUnreadable
    \/ FetchRaises
    \/ FetchReturns
    \/ FetchReturnsMalformed
    \/ RegisterDuringLoop
    \/ FilterAndSort

NextSource ==
    \/ RequestFails
    \/ RequestSucceeds
    \/ AstorParseNext
    \/ CapitolParseNext
    \/ PavillonParseNext
    \/ SourceReturns

NextRun ==
    \/ ValidateEnvironment
    \/ LegacyStart
    \/ AstorRequestFails
    \/ AstorParseRaises
    \/ AstorReturns
    \/ StaatstheaterRequestFails
    \/ StaatstheaterReturns
    \/ VenueRequestFails
    \/ VenueReturns
    \/ LegacyFilter
    \/ NotifyLocal
    \/ NotifyTelegram

NextNotify ==
    \/ NotifyLocal
    \/ NotifyTelegram

NextEvent ==
    \/ ConstructEvent
    \/ ConstructEventDefault
    \/ MetadataSetItem

NextHelpers ==
    \/ CallIsOriginalVersion
    \/ CallParseGermanDate
    \/ CallParseVenueDate
    \/ CallGroupMovies
    \/ CallFormatMessage

NextRegistry ==
    \/ DiscoverSources
    \/ RegisterSource
    \/ GetSource
    \/ GetAllSources
    \/ GetSourcesByType
    \/ MutateMapping

Spec == Init /\ [][Next]_vars

SpecRegistry == InitRegistry /\ [][NextRegistry]_vars

SpecHelpers == InitHelpers /\ [][NextHelpers]_vars

SpecSource == InitSource /\ [][NextSource]_vars

SpecRun == InitRun /\ [][NextRun]_vars

SpecNotify == InitNotify /\ [][NextNotify]_vars

SpecEvent == InitEvent /\ [][NextEvent]_vars

\* ======================================================== claims C1 .. C6
Elems(s) == {s[i] : i \in 1..Len(s)}

Ascending(s) ==
    \A i, j \in 1..Len(s) : i < j => s[i].date.at <= s[j].date.at

Finished == pc \in {"done", "raised"}

\* the window and the cutoff of the call, from the instant of line 48
InCallWeek(e) == today.at <= e.date.at /\ e.date.at <= today.at + WeekDays
BeyondCallWeek(e) == e.date.at > today.at + WeekDays

RECURSIVE Concat(_, _)
\* the lists returned by the sources of `snapshot' not in `without', in order
Concat(snapshot, without) ==
    IF snapshot = <<>> THEN <<>>
    ELSE LET rest == Concat(Tail(snapshot), without)
             name == Head(snapshot).name
         IN  IF name \in without THEN rest ELSE returned[name] \o rest

\* C1: a call in which some source raised on instantiation or on fetch()
\* returns normally, and its result holds every event that the other sources
\* returned and that qualifies for a bucket (a movie inside the week of the
\* call, a non-movie beyond it).
C1_FailuresIsolated ==
    (Finished /\ failed # {}) =>
        /\ pc = "done"
        /\ \A n \in Names \ failed : \A e \in Elems(returned[n]) :
              /\ (e.category = "movie" /\ InCallWeek(e))
                     => e \in Elems(result.movies_this_week)
              /\ (e.category # "movie" /\ BeyondCallWeek(e))
                     => e \in Elems(result.big_events_radar)

\* C2: every event of movies_this_week is a movie dated inside
\* [today, today + 7 days], today being the instant read at line 48.
C2_MoviesInsideCallWeek ==
    pc = "done" =>
        \A e \in Elems(result.movies_this_week) :
            e.category = "movie" /\ InCallWeek(e)

\* C3: every event of big_events_radar is a non-movie dated strictly after
\* today + 7 days, and a non-movie dated today + 7 days or earlier is in
\* neither list.
C3_RadarStrictlyBeyondWeek ==
    pc = "done" =>
        /\ \A e \in Elems(result.big_events_radar) :
              e.category # "movie" /\ BeyondCallWeek(e)
        /\ \A e \in Elems(radar_events) :
              ~BeyondCallWeek(e) =>
                  /\ e \notin Elems(result.big_events_radar)
                  /\ e \notin Elems(result.movies_this_week)

\* a returned call that collected a non-movie dated exactly today + 7 days
\* next to one that made it onto the radar
C3_Witness ==
    /\ pc = "done"
    /\ \E e \in Elems(radar_events) : e.date.at = today.at + WeekDays
    /\ result.big_events_radar # <<>>

\* C4: the result of a call holds both lists, each ascending by date; a call
\* in which no source delivered anything returns both lists empty.
C4_BothListsAscending ==
    /\ pc = "done" =>
          /\ DOMAIN result = {"movies_this_week", "big_events_radar"}
          /\ Ascending(result.movies_this_week)
          /\ Ascending(result.big_events_radar)
    /\ (Finished /\ all_movies = <<>> /\ radar_events = <<>>) =>
          /\ pc = "done"
          /\ result.movies_this_week = <<>>
          /\ result.big_events_radar = <<>>

\* a returned call whose two radar events arrived latest first, after a call
\* in which a source failed
C4_Witness ==
    /\ pc = "done"
    /\ Len(result.big_events_radar) = 2
    /\ radar_events[1].date.at > radar_events[2].date.at

\* C5 as stated: once the loop is over, fetch() has been invoked exactly once
\* on every source whose enabled flag is true and never on a disabled one.
C5_FetchOncePerEnabledSource ==
    /\ \A n \in Names : calls[n] <= 1
    /\ (pc = "loop" /\ idx > Len(sources)) \/ Finished =>
          \A i \in 1..Len(sources) :
              calls[sources[i].name] = IF sources[i].cls.enabled THEN 1 ELSE 0

\* C5 amended: once the loop is over, fetch() has been invoked exactly once on
\* every source that instantiates, is enabled and has a source_name, and never
\* on any other source; no source is invoked twice, and the sources after a
\* failed one are still worked through.
C5_FetchOncePerUsableSource ==
    /\ \A n \in Names : calls[n] <= 1
    /\ \A i \in 1..Len(sources) :
          ~sources[i].cls.enabled => calls[sources[i].name] = 0
    /\ (pc = "loop" /\ idx > Len(sources)) \/ Finished =>
          \A i \in 1..Len(sources) :
              calls[sources[i].name] =
                  IF /\ sources[i].cls.ctor = "ok"
                     /\ sources[i].cls.enabled
                     /\ sources[i].cls.named
                  THEN 1 ELSE 0

\* a finished call in which a source failed and a later one was fetched
C5_Witness ==
    /\ Finished
    /\ \E i, j \in 1..Len(sources) :
          /\ i < j
          /\ sources[i].name \in failed
          /\ calls[sources[j].name] = 1

\* C6: a source logged as failed has no event in either list of the result,
\* and the lists are what the other sources' events alone give.
C6_FailedSourceContributesNothing ==
    pc = "done" =>
        /\ \A e \in Elems(result.movies_this_week) \cup
                    Elems(result.big_events_radar) : e.venue \notin failed
        /\ result.movies_this_week =
               MoviesThisWeek(MoviesOf(Concat(sources, failed)), Now)
        /\ result.big_events_radar =
               BigEventsRadar(OthersOf(Concat(sources, failed)), next_week)

\* ======================================================= claims C7 .. C10
\* what parsing the record alone gives
ParsedAlone(cls, record) ==
    CASE cls = "AstorSource" -> AstorParsePerformance(record)
      [] cls = "CapitolSource" -> CapitolParseEventBody(record)
      [] cls = "PavillonSource" ->
            IF \/ record.href = 0
               \/ ~record.has_text
               \/ ~record.concert
               \/ record.cancelled
            THEN None
            ELSE PavillonParseEvent(record)

\* C7: in every source, a record that cannot be parsed never makes fetch()
\* raise: the only exception that leaves fetch() is a transport failure, and
\* a fetch() that got its page returns the events of all records that parse.
C7_BadRecordNeverFailsFetch ==
    /\ src_pc # "parse_error"
    /\ src_pc = "returned" =>
          \A i \in 1..(src_pos - 1) :
              ParsedAlone(src_cls, src_page[i]).outcome = "value" =>
                  ParsedAlone(src_cls, src_page[i]).value \in Elems(src_events)

\* the qualifying events of the sources that did not fail are what notify got
RemainingDelivered ==
    /\ notified # NoResult
    /\ \A e \in Elems(l_movies) :
          (l_today.at <= e.date.at /\ e.date.at <= l_today.at + WeekDays)
              => e \in Elems(notified.movies_this_week)
    /\ \A e \in Elems(l_radar) :
          e.date.at > l_next_week.at => e \in Elems(notified.big_events_radar)

\* C8: a run() in which exactly one source or venue failed with a transport
\* error (and nothing else went wrong: all dates naive, the clock unmoved)
\* has called notify with the events of the remaining sources.
C8_OneTransportFailureStillNotifies ==
    (/\ run_pc = "returned"
     /\ Cardinality(transport_failed) = 1
     /\ clock = l_today.at
     /\ \A e \in Elems(l_movies) \cup Elems(l_radar) : ~e.date.tz)
        => ("notify" \in invoked /\ RemainingDelivered)

\* C9: with local_only false and the bot token or the chat id missing, run()
\* exits before fetch_all_events, any request or any send is set off; with
\* local_only true the run never exits on validation and goes on to fetch.
C9_MissingCredentialsHaltBeforeFetch ==
    /\ (~local_only /\ ~(Credentials \subseteq environ)) =>
          /\ invoked = {}
          /\ run_pc \in {"validate", "exited"}
          /\ run_pc = "exited" => run_result = "SystemExit"
    /\ local_only =>
          /\ run_pc # "exited"
          /\ run_pc \notin {"validate", "fetch"} =>
                "fetch_all_events" \in invoked

\* a live run halted with the token set and the chat id missing
C9_Witness ==
    /\ ~local_only
    /\ environ = {"TELEGRAM_BOT_TOKEN"}
    /\ run_pc = "exited"

\* C10: every Event that exists has a category in {movie, culture, radar}.
C10_CategoryAlwaysValid ==
    \A e \in Elems(made) : e.category \in EventCategory

\* ====================================================== claims C11 .. C20
\* the metadata of the i-th Event, when default_factory built it
MetadataOf(i) == dicts[meta_ref[i]]

\* C11: an Event constructed without metadata has an empty mapping as its
\* metadata, its own: no two such Events hold the same mapping, and setting a
\* key in one leaves the metadata of every other one as it was.
C11_DefaultMetadataEmptyAndOwn ==
    /\ [](\A i \in 1..Len(made) : meta_ref[i] # 0 =>
             /\ meta_ref[i] \in 1..Len(dicts)
             /\ \A j \in 1..Len(made) : j # i => meta_ref[j] # meta_ref[i])
    /\ [][/\ (Len(made') > Len(made) /\ meta_ref'[Len(made')] # 0) =>
                 dicts'[meta_ref'[Len(made')]] = {}
           /\ \A i \in 1..Len(made) :
                 (meta_ref[i] # 0 /\ dicts'[meta_ref[i]] # dicts[meta_ref[i]]) =>
                     \A j \in 1..Len(made) :
                         (j # i /\ meta_ref[j] # 0 /\ meta_ref[j] # meta_ref[i])
                             => dicts'[meta_ref[j]] = dicts[meta_ref[j]]]_vars

\* two Events constructed without metadata, a key set in the first only
C11_Witness ==
    /\ Len(made) = 2
    /\ meta_ref[1] # 0 /\ meta_ref[2] # 0
    /\ MetadataOf(1) # {}
    /\ MetadataOf(2) = {}

Deutsch_ == <<"D", "e", "u", "t", "s", "c", "h">>

Untertitel_ == <<"U", "n", "t", "e", "r", "t", "i", "t", "e", "l">>

\* C12 as stated: is_original_version(label) is false for the empty label, true for a
\* non-empty label without "Deutsch", and for a label with "Deutsch" true
\* exactly when the label also contains "Untertitel".
C12_OriginalVersionRule ==
    called = "is_original_version" =>
        out.value = IF arg = <<>> THEN FALSE
                    ELSE IF Contains(arg, Deutsch_)
                    THEN Contains(arg, Untertitel_)
                    ELSE TRUE

\* C12 amended: is_original_version(label) is false for the empty label, true
\* for a non-empty label without "Deutsch", and for a label with "Deutsch"
\* true exactly when the label also contains "Untertitel:", colon included.
C12_OriginalVersionRuleColon ==
    called = "is_original_version" =>
        out.value = IF arg = <<>> THEN FALSE
                    ELSE IF Contains(arg, Deutsch_)
                    THEN Contains(arg, Untertitel_ \o <<":">>)
                    ELSE TRUE

\* the call on a label naming German and subtitles came back true
C12_Witness ==
    /\ called = "is_original_version"
    /\ Contains(arg, Deutsch_)
    /\ Contains(arg, Untertitel_ \o <<":">>)
    /\ out.value = TRUE

\* C13: every Event the cinema source has collected, and so every Event its
\* fetch() returns, carries a language label for which is_original_version is
\* true; a performance whose label fails the test never becomes an Event.
C13_OnlyOriginalVersionsReturned ==
    src_cls = "AstorSource" =>
        \A i \in 1..Len(src_events) :
            is_original_version(src_events[i].metadata.language)

\* fetch() returned an Event from a page that also held a dubbed performance of
\* a known film with a start time that parses
C13_Witness ==
    /\ src_cls = "AstorSource"
    /\ src_pc = "returned"
    /\ src_events # <<>>
    /\ \E k \in 1..Len(src_page) :
         /\ src_page[k].movieId \in AstorMovies
         /\ ~is_original_version(src_page[k].language)
         /\ src_page[k].language # <<>>
         /\ fromisoformat(src_page[k].begin) \notin {None, Raised}
         /\ src_page[k].begin # <<>>

\* the timestamp the numbers spell, Raised when they spell no calendar date
Spelled(d, hour, minute) == datetime(d.year, d.month, d.day, hour, minute)

TableMonth(token) == MonthOf(lower(token), 0)

\* C15: parse_german_date and parse_venue_date return None, and neither
\* raise nor make up a date, for a text without a date, for a date with a
\* day or month out of range, and for a compact date whose month token is
\* not in the month table.
C15_NoDateGivesNone ==
    /\ called = "parse_german_date" =>
          \A h \in DateHeads, t \in {<<>>} \cup {x.text : x \in TimeTails} :
              /\ arg = h \o <<"n", "o", "t", " ", "a", " ", "d", "a", "t", "e">> \o t
                     => out = None
              /\ \A d \in DottedDates :
                     (Spelled(d, 20, 0) = Raised /\ arg = h \o d.text \o t)
                         => out = None
    /\ called = "parse_venue_date" =>
          \A h \in VenueHeads, d \in DayTexts, m \in MonthTokens, y \in YearTexts :
              (/\ arg = h \o d.text \o m \o y.text
               /\ \/ TableMonth(m) = 0
                  \/ datetime(y.year, TableMonth(m), d.day, 20, 0) = Raised)
                  => out = None

\* C16: for a text holding <day><month name><year> with the month name, in
\* small letters or capitals, in the month table, parse_venue_date returns
\* that day, the table's month and that year at 20:00, whatever precedes it.
C16_CompactDateFromTable ==
    called = "parse_venue_date" =>
        \A h \in VenueHeads, d \in DayTexts, m \in MonthTokens, y \in YearTexts :
            (/\ arg = h \o d.text \o m \o y.text
             /\ TableMonth(m) # 0
             /\ datetime(y.year, TableMonth(m), d.day, 20, 0) # Raised)
                => out = datetime(y.year, TableMonth(m), d.day, 20, 0)

\* the step is one call of the registry's interface other than discovery
InterfaceCall(call) ==
    /\ reg_calls' = reg_calls + 1
    /\ last_call'.call = call

\* the names of a registry as a set
Registered(reg) == { reg[i].name : i \in 1..Len(reg) }

\* C17: after register_source(name) is applied to a class the call has raised
\* nothing and get_source(name) returns that class, whether or not the name
\* was registered before; every other name is registered exactly when it was
\* before and with the class it had.
C17_RegisterThenGet ==
    [][InterfaceCall("register_source") =>
         LET name == last_call'.name
         IN  /\ last_call'.result.outcome = "value"
             /\ get_source(registry', name) = Value(last_call'.result.value)
             /\ \A other \in RegNames \ {name} :
                  /\ other \in Registered(registry')
                        <=> other \in Registered(registry)
                  /\ other \in Registered(registry) =>
                        get_source(registry', other)
                            = get_source(registry, other)]_vars

\* a name that discovery had registered was registered again with another
\* class, next to a second entry
C17_Witness ==
    /\ last_call.call = "register_source"
    /\ Len(registry) >= 2
    /\ \E i \in 1..Len(after_first) :
         /\ after_first[i].name = last_call.name
         /\ after_first[i].cls # last_call.result.value
    /\ get_source(registry, last_call.name) = Value(last_call.result.value)

\* C18: get_source(name) for a name that is not registered ends in the
\* not-found error (KeyError) whose message lists exactly the registered
\* names, and the call leaves the registry as it was.
C18_UnknownNameNotFound ==
    /\ [](last_call.call = "get_source"
            /\ last_call.name \notin Registered(registry) =>
                /\ last_call.result.outcome = "raised"
                /\ last_call.result.error = "KeyError"
                /\ last_call.result.available = keys(registry))
    /\ [][InterfaceCall("get_source") => registry' = registry]_vars

\* the lookup of an unregistered name failed while two names were registered
C18_Witness ==
    /\ last_call.call = "get_source"
    /\ last_call.name \notin Registered(registry)
    /\ last_call.result.outcome = "raised"
    /\ Len(last_call.result.available) >= 2

\* C19: adding, replacing or removing an entry in a mapping that
\* get_all_sources returned changes nothing that a later get_source,
\* get_all_sources or get_sources_by_type call returns.
C19_ReturnedMappingIsSnapshot ==
    [][InterfaceCall("mutate the mapping") =>
         /\ \A name \in RegNames :
              get_source(registry', name) = get_source(registry, name)
         /\ copy(registry').items = copy(registry).items
         /\ \A source_type \in {"cinema", "concert"} :
              get_sources_by_type(registry', source_type)
                  = get_sources_by_type(registry, source_type)]_vars

\* the caller changed a mapping that get_all_sources had handed out, and the
\* registry still has its entries
C19_Witness ==
    /\ last_call.call = "mutate the mapping"
    /\ registry # <<>>
    /\ mapping.items # registry
    /\ Registered(mapping.items) # Registered(registry)

\* C20: every run of discover_sources after the first leaves the registry as
\* it found it, so with no other registration made the registry is the one the
\* first run left; no module is executed twice and no name is registered twice.
C20_DiscoveryIdempotent ==
    /\ [][runs >= 1 /\ runs' = runs + 1 => registry' = registry]_vars
    /\ [](runs >= 1 /\ reg_calls = 0 => registry = after_first)
    /\ [](\A m \in ModuleNames : sys_modules[m] <= 1)
    /\ [](\A i, j \in 1..Len(registry) :
            registry[i].name = registry[j].name => i = j)

\* discovery ran again over a registry that holds discovered classes
C20_Witness ==
    /\ runs >= 2
    /\ last_call.call = "discover_sources"
    /\ Len(registry) >= 2
    /\ registry = after_first

\* ====================================================== claims C21 .. C30
\* the (title, year) of a movie event, an absent year counting as 0
TitleYear(event) ==
    <<event.title,
      IF "year" \in DOMAIN event.metadata THEN event.metadata.year ELSE 0>>

\* the start of a showtime as one tuple: year, month, day, hour, minute
Start_(showtime) == showtime.date \o showtime.time

\* a tuple of numbers comes before, or is, another of the same length
AtMost(a, b) ==
    \/ a = b
    \/ \E k \in 1..Len(a) :
         /\ a[k] < b[k]
         /\ \A h \in 1..(k - 1) : a[h] = b[h]

\* the earliest start among the showtimes of a film
Earliest(film) ==
    CHOOSE s \in { Start_(film.showtimes[i]) : i \in 1..Len(film.showtimes) } :
        \A i \in 1..Len(film.showtimes) : AtMost(s, Start_(film.showtimes[i]))

\* C21: group_movies_by_film returns exactly one film per distinct
\* (title, year) of its input, an absent year counting as 0; the showtimes of a
\* film are the input events with its (title, year), one each, in arrival
\* order; so no film is without a showtime and the showtime counts add up to
\* the number of input events.
C21_OneFilmPerTitleAndYear ==
    called = "group_movies_by_film" =>
        LET films == out.value
            Of(film) == <<film.title, film.year>>
            Arrived(film) ==
                SelectSeq(arg, LAMBDA event : TitleYear(event) = Of(film))
            RECURSIVE Total(_)
            Total(n) ==
                IF n = 0 THEN 0 ELSE Total(n - 1) + Len(films[n].showtimes)
        IN  /\ { Of(films[i]) : i \in 1..Len(films) }
                    = { TitleYear(arg[k]) : k \in 1..Len(arg) }
            /\ \A i, j \in 1..Len(films) : Of(films[i]) = Of(films[j]) => i = j
            /\ \A i \in 1..Len(films) :
                 /\ Len(films[i].showtimes) >= 1
                 /\ Len(films[i].showtimes) = Len(Arrived(films[i]))
                 /\ \A k \in 1..Len(films[i].showtimes) :
                      Start_(films[i].showtimes[k])
                          = LET d == Arrived(films[i])[k].date
                            IN  <<d.year, d.month, d.day, d.hour, d.minute>>
            /\ Total(Len(films)) = Len(arg)

\* three events of two films were grouped: one film holds two showtimes, one
\* of them given twice or not, and the year of one event was absent
C21_Witness ==
    /\ called = "group_movies_by_film"
    /\ Len(arg) = 3
    /\ Len(out.value) = 2
    /\ \E i \in 1..2 : Len(out.value[i].showtimes) = 2
    /\ \E k \in 1..3 : arg[k].metadata = NoMetadata
    /\ \E k \in 1..3 : arg[k].metadata # NoMetadata

\* C22 as stated: the returned films are in ascending order of their earliest
\* showtime, whatever the order of the input events.
C22_SortedByEarliestShowtime ==
    called = "group_movies_by_film" =>
        \A i, j \in 1..Len(out.value) :
            i < j => AtMost(Earliest(out.value[i]), Earliest(out.value[j]))

\* C22 amended: the returned films are in ascending order of the calendar day
\* of the showtime that arrived first for each film; when the input events
\* arrive in ascending order of their start, that is the ascending order of
\* the films' earliest showtimes.
C22_SortedByFirstArrivedDay ==
    called = "group_movies_by_film" =>
        LET films == out.value
            InOrder == \A k \in 1..(Len(arg) - 1) :
                          LET a == arg[k].date
                              b == arg[k + 1].date
                          IN  AtMost(<<a.year, a.month, a.day, a.hour, a.minute>>,
                                     <<b.year, b.month, b.day, b.hour, b.minute>>)
        IN  /\ \A i, j \in 1..Len(films) :
                 i < j => AtMost(films[i].showtimes[1].date,
                                 films[j].showtimes[1].date)
            /\ InOrder =>
                 \A i, j \in 1..Len(films) :
                    i < j => AtMost(Earliest(films[i]), Earliest(films[j]))

\* the film that arrived second is returned first, its first showtime being a
\* day earlier
C22_Witness ==
    /\ called = "group_movies_by_film"
    /\ Len(out.value) = 2
    /\ out.value[1].title # arg[1].title
    /\ out.value[1].showtimes[1].date # out.value[2].showtimes[1].date

\* the message before the limit is applied
Composed == compose_message(arg.events_data, arg.week_num)

\* C23: format_message never returns more than 4096 characters: a composed
\* message longer than that is cut to its first 4096 - 20 characters followed
\* by the truncation marker, and a composed message of at most 4096 characters
\* is returned as it is.
C23_MessageWithinLimit ==
    called = "format_message" =>
        LET marker == <<"\n", "\n", ".", ".", ".", " ", "(", "t", "r", "u",
                        "n", "c", "a", "t", "e", "d", ")">>
        IN  /\ Len(out.value) <= TELEGRAM_MESSAGE_MAX_LENGTH
            /\ Len(Composed) > TELEGRAM_MESSAGE_MAX_LENGTH =>
                 /\ out.value
                        = SubSeq(Composed, 1, TELEGRAM_MESSAGE_MAX_LENGTH
                                                - TruncationReserve)
                            \o marker
                 /\ SubSeq(out.value, Len(out.value) - Len(marker) + 1,
                           Len(out.value)) = marker
            /\ Len(Composed) <= TELEGRAM_MESSAGE_MAX_LENGTH =>
                 out.value = Composed

\* a composed message one character over the limit came back cut
C23_Witness ==
    /\ called = "format_message"
    /\ Len(Composed) = TELEGRAM_MESSAGE_MAX_LENGTH + 1
    /\ Len(out.value) < TELEGRAM_MESSAGE_MAX_LENGTH
    /\ out.value # Composed

\* C24: with no movie and no radar event the message is not blank and holds
\* the line that says no OV movies were found and the line that says no
\* upcoming events were found; in any message that is not cut, a section whose
\* list is empty holds its line.
C24_EmptyListsAreSaid ==
    called = "format_message" =>
        LET movies == arg.events_data.movies_this_week
            radar == arg.events_data.big_events_radar
            no_movies == <<"_", "N", "o", " ", "O", "V", " ", "m", "o",
                           "v", "i", "e", "s", " ", "t", "h", "i", "s",
                           " ", "w", "e", "e", "k", "_">>
            no_events == <<"_", "N", "o", " ", "u", "p", "c", "o", "m",
                           "i", "n", "g", " ", "e", "v", "e", "n", "t",
                           "s", "_">>
            whole == Len(Composed) <= TELEGRAM_MESSAGE_MAX_LENGTH
        IN  /\ movies = <<>> /\ radar = <<>> =>
                 /\ \E k \in 1..Len(out.value) : out.value[k] \notin {" ", "\n"}
                 /\ Contains(out.value, no_movies)
                 /\ Contains(out.value, no_events)
            /\ whole /\ movies = <<>> => Contains(out.value, no_movies)
            /\ whole /\ radar = <<>> => Contains(out.value, no_events)

\* the message for no movie and no radar event
C24_Witness ==
    /\ called = "format_message"
    /\ arg.events_data.movies_this_week = <<>>
    /\ arg.events_data.big_events_radar = <<>>
    /\ Len(out.value) > 0

\* C25: the message always holds a Movies section, a Culture section and a
\* Radar section, also when every list of the input is empty.
C25_ThreeSections ==
    called = "format_message" =>
        /\ Contains(out.value, <<"M", "o", "v", "i", "e", "s">>)
        /\ Contains(out.value, <<"C", "u", "l", "t", "u", "r", "e">>)
        /\ Contains(out.value, <<"R", "a", "d", "a", "r">>)

\* how often e occurs in the list s
Count(e, s) == Cardinality({ i \in 1..Len(s) : s[i] = e })

\* C26: a finished call has returned, and every event that a source which did
\* not fail returned is in movies_this_week as often as it was returned if it
\* is a movie inside the week of the call, and in big_events_radar as often as
\* it was returned if it is a non-movie beyond that week; events of two
\* sources that agree in title and date are both there.
C26_NoEventLostOrDuplicated ==
    Finished =>
        /\ pc = "done"
        /\ \A n \in Names \ failed : \A e \in Elems(returned[n]) :
              /\ (e.category = "movie" /\ InCallWeek(e)) =>
                    Count(e, result.movies_this_week) = Count(e, returned[n])
              /\ (e.category # "movie" /\ BeyondCallWeek(e)) =>
                    Count(e, result.big_events_radar) = Count(e, returned[n])

\* the max_events the class of the source declares
DeclaredCap ==
    IF src_cls = "CapitolSource" THEN CapitolMaxEvents ELSE PavillonMaxEvents

\* the events of the first n records of the page, in the order of the page,
\* a link that repeats an earlier href counted once
RECURSIVE InPageOrder(_)
InPageOrder(n) ==
    IF n = 0 THEN <<>>
    ELSE LET got == ParsedAlone(src_cls, src_page[n])
             repeated ==
                 /\ src_cls = "PavillonSource"
                 /\ \E j \in 1..(n - 1) : src_page[j].href = src_page[n].href
         IN  InPageOrder(n - 1)
                 \o (IF got.outcome = "value" /\ ~repeated
                     THEN <<got.value>> ELSE <<>>)

\* C27: a source that declares max_events = N returns at most N events from
\* fetch(), and returns them in the document order of its page: what it
\* returns is the beginning of the list of the page's events in page order.
C27_AtMostCapInDocumentOrder ==
    (src_pc = "returned" /\ src_cls \in {"CapitolSource", "PavillonSource"}) =>
        /\ Len(src_events) <= DeclaredCap
        /\ src_events =
              SubSeq(InPageOrder(Len(src_page)), 1, Len(src_events))

\* a page with more events than the cap was cut at the cap
C27_Witness ==
    /\ src_pc = "returned"
    /\ src_cls \in {"CapitolSource", "PavillonSource"}
    /\ Len(InPageOrder(Len(src_page))) > DeclaredCap
    /\ Len(src_events) = DeclaredCap

\* C28: in production mode notify writes the backup files only after
\* send_telegram_message has returned success; when the send returns
\* failure or raises (missing credentials and an HTTP error status
\* included), notify returns False and writes no backup, and in no case does
\* an exception leave notify.
C28_BackupOnlyAfterSuccess ==
    (run_pc = "returned" /\ ~local_only /\ "notify" \in invoked) =>
        /\ run_result \in {"True", "False"}
        /\ "save_to_file" \in invoked => "send returned True" \in invoked
        /\ "send returned True" \notin invoked =>
              /\ run_result = "False"
              /\ "save_to_file" \notin invoked

\* a send that raised for missing credentials: False, no backup
C28_Witness ==
    /\ run_pc = "returned" /\ ~local_only
    /\ ~(Credentials \subseteq environ)
    /\ "send raised" \in invoked
    /\ "save_to_file" \notin invoked
    /\ run_result = "False"

\* C29: the aggregator never writes to the source registry, and the sources
\* one fetch_all_events call works through are exactly the registry content
\* at the moment the call took its snapshot: the snapshot is the registry of
\* that moment and stays as it is, every turn of the loop handles a source of
\* the snapshot, the loop ends when the snapshot is used up, and a
\* registration in between changes nothing of the call.
C29_RunWorksThroughSnapshot ==
    [][ /\ (pc' # pc \/ idx' # idx) => registry' = registry
        /\ registry' # registry =>
              UNCHANGED <<pc, idx, sources, all_movies, radar_events,
                          failed, calls, returned, result>>
        /\ (pc = "idle" /\ pc' = "loop") => sources' = registry
        /\ pc # "idle" => sources' = sources
        /\ (pc = "loop" /\ idx' # idx) =>
              /\ idx <= Len(sources)
              /\ idx' = idx + 1
              /\ failed' \subseteq failed \cup {sources[idx].name}
              /\ \A n \in Names \ {sources[idx].name} :
                    calls'[n] = calls[n] /\ returned'[n] = returned[n]
        /\ (pc = "loop" /\ pc' # "loop") => idx = Len(sources) + 1
      ]_vars

\* a call has finished although a source was registered during its loop
C29_Witness ==
    /\ Finished
    /\ Len(registry) > Len(sources)
    /\ idx = Len(sources) + 1
    /\ \E n \in Names : calls[n] > 0

\* C30: no event a registered source can return makes the filter-and-sort
\* stage of fetch_all_events raise: whatever dates the loop has collected,
\* an Astor begin with a UTC offset included, the call is never aborted by
\* ordering them against the aggregator's clock.
C30_FilterStageNeverRaises ==
    (\E e \in Elems(all_movies) \cup Elems(radar_events) : e.date.tz)
        => pc # "raised"

====
